---- MODULE Spec2Model ----
(***************************************************************************)
(* License server (src/license_server.py): the licenses table, the         *)
(* activity_logs table and the request handlers that read and write them.  *)
(* Every SQL statement followed by its commit is one atomic step; a        *)
(* handler that issues several statements is several steps, so handlers    *)
(* of concurrent requests interleave between their statements.             *)
(* Time is counted in whole days. The requests are those the rate limiter  *)
(* admits and, on /admin, those that carry the admin token.                *)
(* The process launcher (src/start_all.py) and the admin bot               *)
(* (src/telegram_admin_bot.py) are modelled at the end of the module.      *)
(***************************************************************************)
EXTENDS Integers, Sequences, FiniteSets, TLC

VARIABLES
    licenses,       \* table licenses: key -> row (DOMAIN = the keys that exist)
    activity_logs,  \* table activity_logs: sequence of rows, id = index
    now,            \* the clock read by datetime.now()
    req,            \* per request worker: position in its handler and its locals
    responses,      \* the HTTP responses sent so far, oldest first
    rate_limit_storage,  \* per source address: the times of its admitted requests
    time,           \* the clock read by time.time(), in seconds
    launcher,       \* start_all.py: the ProcessManager, its two threads, its children
    admin_bot       \* telegram_admin_bot.py: the conversations and the API calls made

vars == <<licenses, activity_logs, now, req, responses, rate_limit_storage, time, launcher, admin_bot>>

----------------------------------------------------------------------------
(* Bounds of the model *)

MaxTime == 2        \* the clock runs from day 0 to day MaxTime
MaxRequests == 3    \* requests received in a behaviour of Spec
MaxCalls == 4       \* requests received in a behaviour of SpecSeq and the like
MaxPair == 2        \* requests received in a behaviour of SpecGenerate, SpecAuth
MaxRateRequests == 12  \* requests received in a behaviour of SpecRate
MaxOther == 1       \* of them, requests other than a verify from the first address
MaxClock == 60      \* the seconds clock runs from 0 to MaxClock
MaxBatches == 6     \* generate requests received in a behaviour of SpecList
MaxLists == 1       \* list requests received in a behaviour of SpecList

Workers == {1, 2}
Randoms == {1}
ExtendDays == {1}
DeviceIds == {"hwA", "hwB"}
ClientIPs == {"ip1"}
SourceIPs == {"ip1", "ip2"}
TimeSteps == {59, 60}
LicenseTypes == {"trial_1day", "lifetime"}

----------------------------------------------------------------------------
(* Values *)

\* SQL NULL / Python None; a non-null column value v is held as <<v>>
NULL == <<>>
Some(v) == <<v>>

\* the empty string as a key ('' after .strip(), or a missing field)
EmptyKey == <<>>

Min(a, b) == IF a < b THEN a ELSE b
Max(a, b) == IF a > b THEN a ELSE b

prefix_map(license_type) ==
    CASE license_type = "trial_1day"  -> "RBXMT-T1D"
      [] license_type = "trial_3days" -> "RBXMT-T3D"
      [] license_type = "weekly"      -> "RBXMT-WKY"
      [] license_type = "monthly"     -> "RBXMT-MTH"
      [] license_type = "yearly"      -> "RBXMT-YRL"
      [] license_type = "lifetime"    -> "RBXMT-LTM"
      [] OTHER                        -> "RBXMT"

duration_map(license_type) ==
    CASE license_type = "trial_1day"  -> Some(1)
      [] license_type = "trial_3days" -> Some(3)
      [] license_type = "weekly"      -> Some(7)
      [] license_type = "monthly"     -> Some(30)
      [] license_type = "yearly"      -> Some(365)
      [] OTHER                        -> NULL

\* prefix-XXXX-XXXX-XXXX-XXXX-XXXX: the prefix and the random part
generate_license_key(prefix, random_part) == <<prefix, random_part>>


\* datetime.fromisoformat(expires_at) < datetime.now(), for a non-null expires_at
IsPast(expires_at, t) == expires_at # NULL /\ expires_at[1] < t

\* a row as INSERT INTO licenses (key, type, created_at, expires_at, notes) creates it
NewRow(key, license_type, created_at, expires_at, notes) ==
    [key |-> key, hwid |-> NULL, type |-> license_type, created_at |-> created_at,
     expires_at |-> expires_at, activated |-> 0, blocked |-> 0,
     activation_date |-> NULL, activation_ip |-> NULL, notes |-> notes]

----------------------------------------------------------------------------
(* Requests and responses *)

IdleReq == [pc |-> "idle"]

InFlight == {w \in Workers : req[w].pc # "idle"}

\* number of requests received so far
Received == Len(responses) + Cardinality(InFlight)

CanReceive(w) == req[w].pc = "idle"

\* what a request is tagged with when its handler starts: its arrival number, how
\* many responses had been sent before, the two clocks, the licenses table and the
\* address it comes from
Arrival(ip) ==
    [id |-> Received + 1, seen |-> Len(responses), received_at |-> now,
     store_before |-> licenses, ip |-> ip, clock |-> time]

\* a response (status and JSON body) with the request it answers (op, key, hwid and
\* the arrival tags); at is the clock when the handler returns and store_after the
\* licenses table its last step leaves
Reply(arrival, op, key, hwid, status, body) ==
    [id |-> arrival.id, seen |-> arrival.seen, received_at |-> arrival.received_at,
     store_before |-> arrival.store_before, ip |-> arrival.ip, clock |-> arrival.clock,
     op |-> op, key |-> key, hwid |-> hwid,
     status |-> status, body |-> body, at |-> now, store_after |-> licenses']

\* the handler returns: the response goes out and the worker is free again
Return(w, r) ==
    /\ responses' = Append(responses, r)
    /\ req' = [req EXCEPT ![w] = IdleReq]

\* log_activity, had it kept one entry per license (the latest)
log_activity_latest_per_key(action, license_key, hwid, ip, details) ==
    activity_logs' = Append(SelectSeq(activity_logs, LAMBDA e : e.license_key # license_key),
        [timestamp |-> now, action |-> action, license_key |-> license_key,
         hwid |-> hwid, ip_address |-> ip, details |-> details])

log_activity(action, license_key, hwid, ip, details) ==
    activity_logs' = Append(activity_logs,
        [timestamp |-> now, action |-> action, license_key |-> license_key,
         hwid |-> hwid, ip_address |-> ip, details |-> details])

----------------------------------------------------------------------------
(* @rate_limited *)

RATE_LIMIT_REQUESTS == 10
RATE_LIMIT_WINDOW == 60

\* rate_limit_kept, had it kept the entries that are exactly one window old
rate_limit_kept_inclusive(stamps, t) ==
    SelectSeq(stamps, LAMBDA x : x >= t - RATE_LIMIT_WINDOW)

\* [t for t in rate_limit_storage[ip] if t > window_start]
rate_limit_kept(stamps, t) ==
    SelectSeq(stamps, LAMBDA x : x > t - RATE_LIMIT_WINDOW)

\* check_rate_limit(ip) answers True: the old entries go and the request is recorded
check_rate_limit(ip) ==
    /\ Len(rate_limit_kept(rate_limit_storage[ip], time)) < RATE_LIMIT_REQUESTS
    /\ rate_limit_storage' =
          [rate_limit_storage EXCEPT ![ip] = Append(rate_limit_kept(@, time), time)]

\* check_rate_limit(ip) answers False: the decorator logs and answers 429, the
\* handler is not called
rate_limited(w, op, license_key, hwid, ip) ==
    /\ CanReceive(w)
    /\ Len(rate_limit_kept(rate_limit_storage[ip], time)) >= RATE_LIMIT_REQUESTS
    /\ rate_limit_storage' = [rate_limit_storage EXCEPT ![ip] = rate_limit_kept(@, time)]
    /\ UNCHANGED <<licenses, now, time, launcher, admin_bot>>
    /\ log_activity("RATE_LIMIT_EXCEEDED", NULL, NULL, ip, <<"IP", ip>>)
    /\ Return(w, Reply(Arrival(ip), op, license_key, hwid, 429,
                       [error |-> "Too many requests. Try again later."]))

----------------------------------------------------------------------------
(* POST /api/activate *)

\* activate_check, had it refused every activation of a license that is already bound
activate_check_no_reactivation(lic, license_key, hwid, t) ==
    IF license_key \notin DOMAIN lic THEN "Invalid license key"
    ELSE LET row == lic[license_key] IN
         IF row.blocked # 0 THEN "License is blocked"
         ELSE IF IsPast(row.expires_at, t) THEN "License expired"
         ELSE IF row.activated # 0 THEN "License bound to another device"
         ELSE "first activation"

\* activate_check, had it not compared the stored hwid with the supplied one
activate_check_no_hwid_check(lic, license_key, hwid, t) ==
    IF license_key \notin DOMAIN lic THEN "Invalid license key"
    ELSE LET row == lic[license_key] IN
         IF row.blocked # 0 THEN "License is blocked"
         ELSE IF IsPast(row.expires_at, t) THEN "License expired"
         ELSE IF row.activated # 0 THEN "License activated"
         ELSE "first activation"

\* activate_check, had it tested the expiry before the block
activate_check_expiry_first(lic, license_key, hwid, t) ==
    IF license_key \notin DOMAIN lic THEN "Invalid license key"
    ELSE LET row == lic[license_key] IN
         IF IsPast(row.expires_at, t) THEN "License expired"
         ELSE IF row.blocked # 0 THEN "License is blocked"
         ELSE IF row.activated # 0
              THEN IF row.hwid # Some(hwid) THEN "License bound to another device"
                   ELSE "License activated"
              ELSE "first activation"

\* activate_check, had it tested the expiry only of a license that is already bound
activate_check_expiry_when_bound(lic, license_key, hwid, t) ==
    IF license_key \notin DOMAIN lic THEN "Invalid license key"
    ELSE LET row == lic[license_key] IN
         IF row.blocked # 0 THEN "License is blocked"
         ELSE IF row.activated # 0
              THEN IF IsPast(row.expires_at, t) THEN "License expired"
                   ELSE IF row.hwid # Some(hwid) THEN "License bound to another device"
                   ELSE "License activated"
              ELSE "first activation"

\* the checks of activate_license on the row it has read
activate_check(lic, license_key, hwid, t) ==
    IF license_key \notin DOMAIN lic THEN "Invalid license key"
    ELSE LET row == lic[license_key] IN
         IF row.blocked # 0 THEN "License is blocked"
         ELSE IF IsPast(row.expires_at, t) THEN "License expired"
         ELSE IF row.activated # 0
              THEN IF row.hwid # Some(hwid) THEN "License bound to another device"
                   ELSE "License activated"
              ELSE "first activation"

activate_status(message) ==
    CASE message = "Invalid license key" -> 404
      [] message = "License activated"   -> 200
      [] OTHER                           -> 403

activate_log_action(message) ==
    CASE message = "Invalid license key" -> "ACTIVATION_FAILED"
      [] message = "License is blocked"  -> "ACTIVATION_BLOCKED"
      [] message = "License expired"     -> "ACTIVATION_EXPIRED"
      [] OTHER                           -> "ACTIVATION_HWID_MISMATCH"

activate_log_details(message, lic, license_key) ==
    CASE message = "Invalid license key" -> <<"Key not found">>
      [] message = "License is blocked"  -> <<"Key is blocked">>
      [] message = "License expired"     -> <<"Key expired">>
      [] OTHER                           -> <<"Expected", lic[license_key].hwid>>

\* UPDATE licenses SET hwid=?, activated=1, activation_date=?, activation_ip=? WHERE key=?
first_activation_update(lic, license_key, hwid, t, ip) ==
    [k \in DOMAIN lic |->
        IF k = license_key
        THEN [lic[k] EXCEPT !.hwid = Some(hwid), !.activated = 1,
                            !.activation_date = Some(t), !.activation_ip = Some(ip)]
        ELSE lic[k]]

\* the request arrives, the handler SELECTs the row and runs its checks
activate_license_select(w, license_key, hwid, ip) ==
    /\ CanReceive(w)
    /\ check_rate_limit(ip)
    /\ UNCHANGED <<time, launcher, admin_bot>>
    /\ UNCHANGED <<licenses, activity_logs, now>>
    /\ LET id == Arrival(ip)
           message == activate_check(licenses, license_key, hwid, now)
       IN  IF license_key = EmptyKey \/ hwid = ""
           THEN Return(w, Reply(id, "activate", license_key, hwid, 400,
                                [success |-> FALSE, message |-> "Missing key or hwid"]))
           ELSE IF message = "License activated"
           THEN Return(w, Reply(id, "activate", license_key, hwid, 200,
                                [success |-> TRUE, message |-> "License activated",
                                 type |-> licenses[license_key].type,
                                 expires_at |-> licenses[license_key].expires_at]))
           ELSE IF message = "first activation"
           THEN /\ req' = [req EXCEPT ![w] =
                             [pc |-> "activate_update", id |-> id, key |-> license_key,
                              hwid |-> hwid, ip |-> ip, row |-> licenses[license_key]]]
                /\ UNCHANGED responses
           ELSE /\ req' = [req EXCEPT ![w] =
                             [pc |-> "activate_reject", id |-> id, key |-> license_key,
                              hwid |-> hwid, ip |-> ip, message |-> message,
                              details |-> activate_log_details(message, licenses, license_key)]]
                /\ UNCHANGED responses

\* a failed check: log_activity, then the 403/404 response
activate_license_reject(w) ==
    /\ req[w].pc = "activate_reject"
    /\ UNCHANGED <<licenses, now>>
    /\ log_activity(activate_log_action(req[w].message), req[w].key, Some(req[w].hwid),
                    req[w].ip, req[w].details)
    /\ Return(w, Reply(req[w].id, "activate", req[w].key, req[w].hwid,
                       activate_status(req[w].message),
                       [success |-> FALSE, message |-> req[w].message]))
    /\ UNCHANGED <<rate_limit_storage, time, launcher, admin_bot>>

\* first activation: the UPDATE and its commit
activate_license_update(w) ==
    /\ req[w].pc = "activate_update"
    /\ licenses' = first_activation_update(licenses, req[w].key, req[w].hwid, now, req[w].ip)
    /\ req' = [req EXCEPT ![w].pc = "activate_log"]
    /\ UNCHANGED <<activity_logs, now, responses>>
    /\ UNCHANGED <<rate_limit_storage, time, launcher, admin_bot>>

\* first activation: log_activity, then the success response built from the row read
activate_license_log(w) ==
    /\ req[w].pc = "activate_log"
    /\ UNCHANGED <<licenses, now>>
    /\ log_activity("ACTIVATION_SUCCESS", req[w].key, Some(req[w].hwid), req[w].ip,
                    <<"Type", req[w].row.type>>)
    /\ Return(w, Reply(req[w].id, "activate", req[w].key, req[w].hwid, 200,
                       [success |-> TRUE, message |-> "License activated",
                        type |-> req[w].row.type, expires_at |-> req[w].row.expires_at]))
    /\ UNCHANGED <<rate_limit_storage, time, launcher, admin_bot>>

----------------------------------------------------------------------------
(* POST /api/verify *)

\* verify_body, had it taken the expiry from the class and the creation date
verify_body_by_class(lic, license_key, hwid, t) ==
    IF license_key \notin DOMAIN lic THEN [valid |-> FALSE, message |-> "Key not found"]
    ELSE LET row == lic[license_key]
             days == duration_map(row.type)
         IN
         IF row.blocked # 0 THEN [valid |-> FALSE, message |-> "License blocked"]
         ELSE IF row.hwid # Some(hwid) THEN [valid |-> FALSE, message |-> "HWID mismatch"]
         ELSE IF days # NULL /\ row.created_at + days[1] < t
              THEN [valid |-> FALSE, message |-> "License expired"]
         ELSE [valid |-> TRUE, type |-> row.type, expires_at |-> row.expires_at]

\* the checks of verify_license on the row it has read, and the JSON it answers
\* verify_body, had it let a license that is bound to no device pass the device check
verify_body_unbound_passes(lic, license_key, hwid, t) ==
    IF license_key \notin DOMAIN lic THEN [valid |-> FALSE, message |-> "Key not found"]
    ELSE LET row == lic[license_key] IN
         IF row.blocked # 0 THEN [valid |-> FALSE, message |-> "License blocked"]
         ELSE IF row.hwid # NULL /\ row.hwid # Some(hwid)
              THEN [valid |-> FALSE, message |-> "HWID mismatch"]
         ELSE IF IsPast(row.expires_at, t) THEN [valid |-> FALSE, message |-> "License expired"]
         ELSE [valid |-> TRUE, type |-> row.type, expires_at |-> row.expires_at]

verify_body(lic, license_key, hwid, t) ==
    IF license_key \notin DOMAIN lic THEN [valid |-> FALSE, message |-> "Key not found"]
    ELSE LET row == lic[license_key] IN
         IF row.blocked # 0 THEN [valid |-> FALSE, message |-> "License blocked"]
         ELSE IF row.hwid # Some(hwid) THEN [valid |-> FALSE, message |-> "HWID mismatch"]
         ELSE IF IsPast(row.expires_at, t) THEN [valid |-> FALSE, message |-> "License expired"]
         ELSE [valid |-> TRUE, type |-> row.type, expires_at |-> row.expires_at]

\* verify_license, had it bound the supplied device to the license it checks
verify_license_binding(w, license_key, hwid, ip) ==
    /\ CanReceive(w)
    /\ check_rate_limit(ip)
    /\ UNCHANGED <<time, launcher, admin_bot>>
    /\ licenses' = first_activation_update(licenses, license_key, hwid, now, ip)
    /\ Return(w, Reply(Arrival(ip), "verify", license_key, hwid, 200,
                       verify_body(licenses, license_key, hwid, now)))
    /\ UNCHANGED <<activity_logs, now>>

verify_license(w, license_key, hwid, ip) ==
    /\ CanReceive(w)
    /\ check_rate_limit(ip)
    /\ UNCHANGED <<time, launcher, admin_bot>>
    /\ UNCHANGED <<licenses, activity_logs, now>>
    /\ IF license_key = EmptyKey \/ hwid = ""
       THEN Return(w, Reply(Arrival(ip), "verify", license_key, hwid, 400,
                            [valid |-> FALSE, message |-> "Missing data"]))
       ELSE Return(w, Reply(Arrival(ip), "verify", license_key, hwid, 200,
                            verify_body(licenses, license_key, hwid, now)))

----------------------------------------------------------------------------
(* POST /api/info *)

\* days_left, had it returned delta.days as it is
days_left_unclamped(expires_at, t) ==
    IF expires_at = NULL THEN NULL ELSE Some(expires_at[1] - t)

\* max(0, delta.days) for delta = expires_at - now
days_left(expires_at, t) ==
    IF expires_at = NULL THEN NULL ELSE Some(Max(0, expires_at[1] - t))

\* SELECT * FROM licenses WHERE key=? AND hwid=?, and the JSON built from the row
info_body(lic, license_key, hwid, t) ==
    IF license_key \in DOMAIN lic /\ lic[license_key].hwid = Some(hwid)
    THEN LET row == lic[license_key] IN
         [key |-> <<row.key[1], "...">>, type |-> row.type, created_at |-> row.created_at,
          expires_at |-> row.expires_at, days_left |-> days_left(row.expires_at, t),
          activated |-> (row.activated # 0), blocked |-> (row.blocked # 0)]
    ELSE [error |-> "License not found"]

license_info(w, license_key, hwid, ip) ==
    /\ CanReceive(w)
    /\ check_rate_limit(ip)
    /\ UNCHANGED <<time, launcher, admin_bot>>
    /\ UNCHANGED <<licenses, activity_logs, now>>
    /\ LET body == info_body(licenses, license_key, hwid, now)
       IN  Return(w, Reply(Arrival(ip), "info", license_key, hwid,
                           IF "error" \in DOMAIN body THEN 404 ELSE 200, body))

----------------------------------------------------------------------------
(* Admin handlers that are one UPDATE or DELETE:                           *)
(* /admin/block, /admin/unblock, /admin/reset-hwid, /admin/delete          *)

\* rowcount, had the handlers not looked at the number of rows affected
rowcount_not_looked_at(lic, license_key) == 1

\* c.rowcount of a statement with WHERE key=?
rowcount(lic, license_key) == IF license_key \in DOMAIN lic THEN 1 ELSE 0

\* UPDATE licenses SET blocked=1 WHERE key=?
block_update(lic, license_key) ==
    [k \in DOMAIN lic |-> IF k = license_key THEN [lic[k] EXCEPT !.blocked = 1] ELSE lic[k]]

\* unblock_update, had the statement been copied from block_license unchanged
unblock_update_sets_blocked(lic, license_key) ==
    [k \in DOMAIN lic |-> IF k = license_key THEN [lic[k] EXCEPT !.blocked = 1] ELSE lic[k]]

\* UPDATE licenses SET blocked=0 WHERE key=?
unblock_update(lic, license_key) ==
    [k \in DOMAIN lic |-> IF k = license_key THEN [lic[k] EXCEPT !.blocked = 0] ELSE lic[k]]

\* reset_hwid_update, had it cleared the hwid and left activated set
reset_hwid_update_keeps_activated(lic, license_key) ==
    [k \in DOMAIN lic |->
        IF k = license_key
        THEN [lic[k] EXCEPT !.hwid = NULL, !.activation_date = NULL, !.activation_ip = NULL]
        ELSE lic[k]]

\* reset_hwid_update, had it left the activation date and origin in place
reset_hwid_update_keeps_origin(lic, license_key) ==
    [k \in DOMAIN lic |->
        IF k = license_key THEN [lic[k] EXCEPT !.hwid = NULL, !.activated = 0] ELSE lic[k]]

\* UPDATE licenses SET hwid=NULL, activated=0, activation_date=NULL, activation_ip=NULL WHERE key=?
reset_hwid_update(lic, license_key) ==
    [k \in DOMAIN lic |->
        IF k = license_key
        THEN [lic[k] EXCEPT !.hwid = NULL, !.activated = 0,
                            !.activation_date = NULL, !.activation_ip = NULL]
        ELSE lic[k]]

\* DELETE FROM licenses WHERE key=?
delete_update(lic, license_key) ==
    [k \in DOMAIN lic \ {license_key} |-> lic[k]]

\* the statement, its rowcount and commit; 400 without a key, 404 when no row was affected
AdminStatement(w, op, license_key, ip, newLicenses, logAction, message) ==
    /\ CanReceive(w)
    /\ UNCHANGED <<activity_logs, now>>
    /\ IF license_key = EmptyKey
       THEN /\ UNCHANGED licenses
            /\ Return(w, Reply(Arrival(ip), op, license_key, "", 400, [error |-> "Key required"]))
       ELSE /\ licenses' = newLicenses
            /\ IF rowcount(licenses, license_key) = 0
               THEN Return(w, Reply(Arrival(ip), op, license_key, "", 404,
                                    [error |-> "Key not found"]))
               ELSE /\ req' = [req EXCEPT ![w] =
                                 [pc |-> "admin_log", id |-> Arrival(ip), op |-> op,
                                  key |-> license_key, ip |-> ip,
                                  action |-> logAction, message |-> message]]
                    /\ UNCHANGED responses
    /\ UNCHANGED <<rate_limit_storage, time, launcher, admin_bot>>

\* AdminLog, had log_activity been called without the key
AdminLog_without_key(w, op) ==
    /\ req[w].pc = "admin_log"
    /\ req[w].op = op
    /\ UNCHANGED <<licenses, now>>
    /\ log_activity(req[w].action, NULL, NULL, req[w].ip, NULL)
    /\ Return(w, Reply(req[w].id, op, req[w].key, "", 200,
                       [success |-> TRUE, message |-> req[w].message]))
    /\ UNCHANGED <<rate_limit_storage, time, launcher, admin_bot>>

\* log_activity(<action>, license_key), then the success response
AdminLog(w, op) ==
    /\ req[w].pc = "admin_log"
    /\ req[w].op = op
    /\ UNCHANGED <<licenses, now>>
    /\ log_activity(req[w].action, req[w].key, NULL, req[w].ip, NULL)
    /\ Return(w, Reply(req[w].id, op, req[w].key, "", 200,
                       [success |-> TRUE, message |-> req[w].message]))
    /\ UNCHANGED <<rate_limit_storage, time, launcher, admin_bot>>

block_license(w, license_key, ip) ==
    AdminStatement(w, "block", license_key, ip, block_update(licenses, license_key),
                   "KEY_BLOCKED", "Key blocked")

block_license_log(w) == AdminLog(w, "block")

unblock_license(w, license_key, ip) ==
    AdminStatement(w, "unblock", license_key, ip, unblock_update(licenses, license_key),
                   "KEY_UNBLOCKED", "Key unblocked")

unblock_license_log(w) == AdminLog(w, "unblock")

reset_hwid(w, license_key, ip) ==
    AdminStatement(w, "reset-hwid", license_key, ip, reset_hwid_update(licenses, license_key),
                   "HWID_RESET", "HWID reset successful")

reset_hwid_log(w) == AdminLog(w, "reset-hwid")

delete_license(w, license_key, ip) ==
    AdminStatement(w, "delete", license_key, ip, delete_update(licenses, license_key),
                   "KEY_DELETED", "Key deleted")

delete_license_log(w) == AdminLog(w, "delete")

----------------------------------------------------------------------------
(* @admin_required *)

\* the Authorization headers requests come with: none, a wrong one, the right one
Authorizations == {NULL, Some("Bearer guess"), Some("Bearer ADMIN_PASSWORD")}

\* the routes that carry @admin_required
AdminEndpoints ==
    {"generate", "block", "unblock", "reset-hwid", "extend", "delete", "list", "stats",
     "search", "logs", "export", "analytics/activations", "analytics/revenue"}

\* not (not auth or auth != f"Bearer {ADMIN_PASSWORD}")
authorized(auth) == auth # NULL /\ auth = Some("Bearer ADMIN_PASSWORD")

\* admin_required, had it looked at the header only after the handler's statement
admin_required_after_statement(w, op, license_key, auth, ip) ==
    /\ CanReceive(w)
    /\ ~authorized(auth)
    /\ licenses' = delete_update(licenses, license_key)
    /\ log_activity("UNAUTHORIZED_ACCESS", NULL, NULL, ip, <<"IP", ip>>)
    /\ Return(w, Reply(Arrival(ip), op, license_key, "", 401, [error |-> "Unauthorized"])
                 @@ [auth |-> auth])
    /\ UNCHANGED now
    /\ UNCHANGED <<rate_limit_storage, time, launcher, admin_bot>>

\* the decorator turns the request away: log_activity and the 401, the handler is
\* not called. The response carries the header the request came with, as the tag auth.
admin_required(w, op, license_key, auth, ip) ==
    /\ CanReceive(w)
    /\ ~authorized(auth)
    /\ UNCHANGED <<licenses, now>>
    /\ log_activity("UNAUTHORIZED_ACCESS", NULL, NULL, ip, <<"IP", ip>>)
    /\ Return(w, Reply(Arrival(ip), op, license_key, "", 401, [error |-> "Unauthorized"])
                 @@ [auth |-> auth])
    /\ UNCHANGED <<rate_limit_storage, time, launcher, admin_bot>>

----------------------------------------------------------------------------
(* POST /admin/extend *)

\* new_expiry, had it always counted from the stored date
new_expiry_from_stored(expires_at, days, t) == Some(expires_at[1] + days)

\* current_expiry (moved to now when already past) + timedelta(days=days)
new_expiry(expires_at, days, t) ==
    Some((IF expires_at[1] < t THEN t ELSE expires_at[1]) + days)

\* UPDATE licenses SET expires_at=? WHERE key=?
extend_update(lic, license_key, expiry) ==
    [k \in DOMAIN lic |->
        IF k = license_key THEN [lic[k] EXCEPT !.expires_at = expiry] ELSE lic[k]]

\* extend_license_select, had it extended a license without expiry from today
extend_license_select_lifetime_too(w, license_key, days, ip) ==
    /\ CanReceive(w)
    /\ UNCHANGED <<licenses, activity_logs, now>>
    /\ IF license_key \notin DOMAIN licenses
       THEN Return(w, Reply(Arrival(ip), "extend", license_key, "", 404,
                            [error |-> "Key not found"]))
       ELSE /\ req' = [req EXCEPT ![w] =
                         [pc |-> "extend_update", id |-> Arrival(ip), key |-> license_key,
                          ip |-> ip, days |-> days,
                          new_expiry |-> IF licenses[license_key].expires_at = NULL
                                         THEN Some(now + days)
                                         ELSE (Some((IF licenses[license_key].expires_at[1] < now
                                                     THEN now
                                                     ELSE licenses[license_key].expires_at[1]) + days))]]
            /\ UNCHANGED responses
    /\ UNCHANGED <<rate_limit_storage, time, launcher, admin_bot>>

\* SELECT expires_at, the 404 and 400 exits, and the new date computed from the row read
extend_license_select(w, license_key, days, ip) ==
    /\ CanReceive(w)
    /\ UNCHANGED <<licenses, activity_logs, now>>
    /\ IF license_key = EmptyKey
       THEN Return(w, Reply(Arrival(ip), "extend", license_key, "", 400,
                            [error |-> "Key required"]))
       ELSE IF license_key \notin DOMAIN licenses
       THEN Return(w, Reply(Arrival(ip), "extend", license_key, "", 404,
                            [error |-> "Key not found"]))
       ELSE IF licenses[license_key].expires_at = NULL
       THEN Return(w, Reply(Arrival(ip), "extend", license_key, "", 400,
                            [error |-> "Lifetime license cannot be extended"]))
       ELSE /\ req' = [req EXCEPT ![w] =
                         [pc |-> "extend_update", id |-> Arrival(ip), key |-> license_key,
                          ip |-> ip, days |-> days,
                          new_expiry |-> new_expiry(licenses[license_key].expires_at, days, now)]]
            /\ UNCHANGED responses
    /\ UNCHANGED <<rate_limit_storage, time, launcher, admin_bot>>

extend_license_update(w) ==
    /\ req[w].pc = "extend_update"
    /\ licenses' = extend_update(licenses, req[w].key, req[w].new_expiry)
    /\ req' = [req EXCEPT ![w].pc = "extend_log"]
    /\ UNCHANGED <<activity_logs, now, responses>>
    /\ UNCHANGED <<rate_limit_storage, time, launcher, admin_bot>>

extend_license_log(w) ==
    /\ req[w].pc = "extend_log"
    /\ UNCHANGED <<licenses, now>>
    /\ log_activity("KEY_EXTENDED", req[w].key, NULL, req[w].ip, <<"Added days", req[w].days>>)
    /\ Return(w, Reply(req[w].id, "extend", req[w].key, "", 200,
                       [success |-> TRUE, message |-> <<"Extended by days", req[w].days>>,
                        new_expiry |-> req[w].new_expiry]))
    /\ UNCHANGED <<rate_limit_storage, time, launcher, admin_bot>>

----------------------------------------------------------------------------
(* POST /admin/generate *)

\* the largest batch generate_license creates
MAX_COUNT == 100

\* batch_count, had the cap been left out
batch_count_uncapped(count) == count

\* count = min(data.get('count', 1), 100)
batch_count(count) == Min(count, MAX_COUNT)

\* the keys drawn by the count calls of generate_license_key, in order
generated_keys(license_type, randoms) ==
    [i \in DOMAIN randoms |-> generate_license_key(prefix_map(license_type), randoms[i])]

\* IntegrityError, had the INSERT been an INSERT OR REPLACE
IntegrityError_never(lic, keys) == FALSE

\* the key column is the PRIMARY KEY: an INSERT of a key already in the table, or
\* drawn earlier in the same batch, raises IntegrityError
IntegrityError(lic, keys) ==
    \/ \E i \in DOMAIN keys : keys[i] \in DOMAIN lic
    \/ \E i, j \in DOMAIN keys : i # j /\ keys[i] = keys[j]

\* the INSERTs of the loop, as committed
generate_insert(lic, keys, license_type, t, notes) ==
    LET days == duration_map(license_type)
        expires_at == IF days # NULL THEN Some(t + days[1]) ELSE NULL
        added == {keys[i] : i \in DOMAIN keys}
    IN  [k \in DOMAIN lic \cup added |->
            IF k \in added THEN NewRow(k, license_type, t, expires_at, notes) ELSE lic[k]]

\* the loop of INSERTs and the commit, randoms being what the count calls of
\* generate_license_key draw; an IntegrityError leaves the handler before the commit
\* (the response is a 500 and nothing of the batch is stored). A generate response
\* carries the count and the type the request asked for and what was drawn, as tags.
generate_license(w, license_type, count, randoms, ip) ==
    /\ CanReceive(w)
    /\ DOMAIN randoms = 1..batch_count(count)
    /\ UNCHANGED <<activity_logs, now>>
    /\ LET keys == generated_keys(license_type, randoms)
       IN  IF IntegrityError(licenses, keys)
           THEN /\ UNCHANGED licenses
                /\ Return(w, Reply(Arrival(ip), "generate", EmptyKey, "", 500,
                                   [error |-> "IntegrityError"])
                             @@ [requested |-> count, type |-> license_type, drawn |-> randoms])
           ELSE /\ licenses' = generate_insert(licenses, keys, license_type, now, "")
                /\ req' = [req EXCEPT ![w] =
                             [pc |-> "generate_log", id |-> Arrival(ip), ip |-> ip,
                              type |-> license_type, keys |-> keys, count |-> count,
                              randoms |-> randoms]]
                /\ UNCHANGED responses
    /\ UNCHANGED <<rate_limit_storage, time, launcher, admin_bot>>

generate_license_log(w) ==
    /\ req[w].pc = "generate_log"
    /\ UNCHANGED <<licenses, now>>
    /\ log_activity("KEYS_GENERATED", NULL, NULL, req[w].ip,
                    <<"Type", req[w].type, "Count", batch_count(req[w].count)>>)
    /\ Return(w, Reply(req[w].id, "generate", EmptyKey, "", 200,
                       [success |-> TRUE, keys |-> req[w].keys])
                 @@ [requested |-> req[w].count, type |-> req[w].type,
                     drawn |-> req[w].randoms])
    /\ UNCHANGED <<rate_limit_storage, time, launcher, admin_bot>>

----------------------------------------------------------------------------
(* GET /admin/list *)

\* the largest LIMIT list_licenses asks for
MAX_LIMIT == 500

\* value LIKE '%term%' for the terms requests search for: part of a key's prefix, or
\* a whole device id or note; NULL LIKE ... is not true
like(value, term) ==
    /\ value # NULL
    /\ \/ term = "T1D" /\ value[1] = "RBXMT-T1D"
       \/ term = "LTM" /\ value[1] = "RBXMT-LTM"
       \/ term = value[1]

\* the status list_licenses computes for a row
list_status(row, t) ==
    IF row.blocked # 0 THEN "blocked"
    ELSE IF row.expires_at # NULL /\ IsPast(row.expires_at, t) THEN "expired"
    ELSE IF row.activated # 0 THEN "active"
    ELSE "pending"

\* the keys of: SELECT * FROM licenses WHERE 1=1 [AND type=?] [AND (key LIKE ? OR hwid LIKE ?)]
list_where(lic, filter_type, search) ==
    {k \in DOMAIN lic :
        /\ filter_type \notin {NULL, Some("")} => lic[k].type = filter_type[1]
        /\ search # "" => (like(k, search) \/ like(lic[k].hwid, search))}

\* limit = min(int(request.args.get('limit', 100)), 500)
list_limit(limit) == Min(limit, MAX_LIMIT)

\* the subsets of c elements of set S
Choose(S, c) ==
    IF c = 0 THEN {{}}
    ELSE IF c = 1 THEN {{x} : x \in S}
    ELSE IF c = Cardinality(S) - 1 THEN {S \ {x} : x \in S}
    ELSE {T \in SUBSET S : Cardinality(T) = c}

\* ORDER BY created_at DESC LIMIT n over the rows with the keys in keys: the sets of
\* keys the statement can return. A negative n is no limit (SQLite). When the limit
\* cuts through rows of the same created_at, which of them are returned is not fixed:
\* the rows newer than the cut are returned and any c of the rows at the cut.
order_by_created_at_limit(lic, keys, n) ==
    IF n < 0 \/ n >= Cardinality(keys) THEN {keys}
    ELSE LET newer(d) == {k \in keys : lic[k].created_at > d}
             same(d) == {k \in keys : lic[k].created_at = d}
             cut == CHOOSE d \in {lic[k].created_at : k \in keys} :
                       /\ Cardinality(newer(d)) <= n
                       /\ n < Cardinality(newer(d)) + Cardinality(same(d))
         IN  {newer(cut) \cup T : T \in Choose(same(cut), n - Cardinality(newer(cut)))}

\* an element of the "licenses" list of the answer
list_item(row, t) ==
    [key |-> row.key, hwid |-> IF row.hwid # NULL THEN <<row.hwid[1], "...">> ELSE NULL,
     type |-> row.type, status |-> list_status(row, t), created_at |-> row.created_at,
     expires_at |-> row.expires_at, activated |-> (row.activated # 0),
     blocked |-> (row.blocked # 0), activation_date |-> row.activation_date,
     notes |-> row.notes]

\* the answer for the rows the statement returned: those whose status passes the
\* status filter. The list is held as the set of its elements (its order is left out).
list_body(lic, rows, filter_status, t) ==
    LET result == {list_item(lic[k], t) : k \in
                      {q \in rows : filter_status \notin {NULL, Some("")}
                                       => list_status(lic[q], t) = filter_status[1]}}
    IN  [licenses |-> result, count |-> Cardinality(result)]

\* the handler, for an authorized request; the response carries the query parameters
\* as the tag args
list_licenses(w, filter_type, filter_status, search, limit, ip) ==
    /\ CanReceive(w)
    /\ UNCHANGED <<licenses, activity_logs, now>>
    /\ \E rows \in order_by_created_at_limit(licenses,
                      list_where(licenses, filter_type, search), list_limit(limit)) :
         Return(w, Reply(Arrival(ip), "list", EmptyKey, "", 200,
                         list_body(licenses, rows, filter_status, now))
                   @@ [args |-> [type |-> filter_type, status |-> filter_status,
                                 search |-> search, limit |-> limit]])
    /\ UNCHANGED <<rate_limit_storage, time, launcher, admin_bot>>

----------------------------------------------------------------------------
(* GET /admin/search *)

\* the LIMIT of the statement of search_license
SEARCH_LIMIT == 50

\* the keys of: SELECT * FROM licenses WHERE key LIKE ? OR hwid LIKE ? OR notes LIKE ?
search_where(lic, query) ==
    {k \in DOMAIN lic :
        like(k, query) \/ like(lic[k].hwid, query) \/ like(Some(lic[k].notes), query)}

search_body(lic, rows) ==
    LET result == {[key |-> lic[k].key, hwid |-> lic[k].hwid, type |-> lic[k].type,
                    activated |-> (lic[k].activated # 0), blocked |-> (lic[k].blocked # 0),
                    expires_at |-> lic[k].expires_at] : k \in rows}
    IN  [results |-> result, count |-> Cardinality(result)]

\* the handler, for an authorized request
search_license(w, query, ip) ==
    /\ CanReceive(w)
    /\ UNCHANGED <<licenses, activity_logs, now>>
    /\ IF Len(query) < 3
       THEN Return(w, Reply(Arrival(ip), "search", EmptyKey, "", 400,
                            [error |-> "Query too short (min 3 chars)"])
                      @@ [args |-> [q |-> query]])
       ELSE \E rows \in order_by_created_at_limit(licenses, search_where(licenses, query),
                                                  SEARCH_LIMIT) :
              Return(w, Reply(Arrival(ip), "search", EmptyKey, "", 200,
                              search_body(licenses, rows))
                        @@ [args |-> [q |-> query]])
    /\ UNCHANGED <<rate_limit_storage, time, launcher, admin_bot>>

----------------------------------------------------------------------------
(* GET /admin/stats *)

\* the answer of get_stats from the table on day t: each count is the number of rows
\* of one SELECT ... FROM licenses WHERE <condition>
stats_body(lic, t) ==
    LET rows == {lic[k] : k \in DOMAIN lic}
    IN  [total |-> Cardinality(rows),
         activated |-> Cardinality({row \in rows : row.activated = 1}),
         blocked |-> Cardinality({row \in rows : row.blocked = 1}),
         pending |-> Cardinality({row \in rows : row.activated = 0 /\ row.blocked = 0}),
         expired |-> Cardinality({row \in rows :
                                    row.expires_at # NULL /\ row.expires_at[1] < t}),
         by_type |-> [ty \in {row.type : row \in rows} |->
                         Cardinality({row \in rows : row.type = ty})],
         activations_24h |-> Cardinality({row \in rows :
                                 row.activation_date # NULL /\ row.activation_date[1] > t - 1}),
         activations_7d |-> Cardinality({row \in rows :
                                 row.activation_date # NULL /\ row.activation_date[1] > t - 7}),
         server_time |-> t]

\* the handler, for an authorized request. Its SELECTs are taken as one step: the
\* specifications that contain it contain no handler that writes the table.
get_stats(w, ip) ==
    /\ CanReceive(w)
    /\ UNCHANGED <<licenses, activity_logs, now>>
    /\ Return(w, Reply(Arrival(ip), "stats", EmptyKey, "", 200, stats_body(licenses, now)))
    /\ UNCHANGED <<rate_limit_storage, time, launcher, admin_bot>>

----------------------------------------------------------------------------
(* GET /admin/export *)

\* the status column of a line of the text export
export_status(row) ==
    IF row.blocked # 0 THEN "BLOCKED" ELSE IF row.activated # 0 THEN "ACTIVE" ELSE "PENDING"

\* the answer of export_licenses: the lines of the text format (without the two
\* header lines) or the elements of the JSON list, held as sets
export_body(lic, format_type) ==
    IF format_type = "text"
    THEN [lines |-> {[key |-> lic[k].key, type |-> lic[k].type,
                      status |-> export_status(lic[k]),
                      expires |-> IF lic[k].expires_at # NULL THEN lic[k].expires_at
                                  ELSE Some("LIFETIME")] : k \in DOMAIN lic}]
    ELSE [licenses |-> {[key |-> lic[k].key, type |-> lic[k].type, hwid |-> lic[k].hwid,
                         created_at |-> lic[k].created_at, expires_at |-> lic[k].expires_at,
                         activated |-> (lic[k].activated # 0),
                         blocked |-> (lic[k].blocked # 0)] : k \in DOMAIN lic}]

\* the handler, for an authorized request
export_licenses(w, format_type, ip) ==
    /\ CanReceive(w)
    /\ UNCHANGED <<licenses, activity_logs, now>>
    /\ Return(w, Reply(Arrival(ip), "export", EmptyKey, "", 200,
                       export_body(licenses, format_type))
                 @@ [args |-> [format |-> format_type]])
    /\ UNCHANGED <<rate_limit_storage, time, launcher, admin_bot>>

----------------------------------------------------------------------------
(* The launcher (src/start_all.py) and the admin bot (src/telegram_admin_bot.py)
   as they start *)

\* the users that write to the bot: the one whose id is ADMIN_USER_ID and another
Users == {"admin", "stranger"}

\* ProcessManager.__init__, no child started yet, the main thread about to call
\* start_server, the monitor thread not started; processes is the list of the
\* children started so far, each the script it runs and whether it is alive
Launched ==
    [server_process |-> NULL, bot_process |-> NULL,
     server_restarts |-> 0, bot_restarts |-> 0, running |-> TRUE,
     processes |-> <<>>, main |-> "start_server", monitor |-> "not started",
     rounds |-> 0]

\* the dispatcher polling: no conversation has a state or data, no API call has
\* been made, no update handled
Polling ==
    [state |-> [u \in Users |-> NULL], extend_key |-> [u \in Users |-> NULL],
     api_calls |-> <<>>, handled |-> 0, update |-> NULL]

----------------------------------------------------------------------------
(* The clock *)

\* Tick, had the passing of a day removed the licenses that have expired
Tick_purging_expired ==
    /\ now < MaxTime
    /\ now' = now + 1
    /\ licenses' = [k \in {q \in DOMAIN licenses : ~IsPast(licenses[q].expires_at, now + 1)}
                      |-> licenses[k]]
    /\ UNCHANGED <<activity_logs, req, responses>>
    /\ UNCHANGED <<rate_limit_storage, time, launcher, admin_bot>>

Tick ==
    /\ now < MaxTime
    /\ now' = now + 1
    /\ UNCHANGED <<licenses, activity_logs, req, responses>>
    /\ UNCHANGED <<rate_limit_storage, time, launcher, admin_bot>>

----------------------------------------------------------------------------
Init ==
    /\ licenses = [k \in {} |-> NULL]
    /\ activity_logs = <<>>
    /\ now = 0
    /\ req = [w \in Workers |-> IdleReq]
    /\ responses = <<>>
    /\ rate_limit_storage = [ip \in SourceIPs |-> <<>>]
    /\ time = 0
    /\ launcher = Launched
    /\ admin_bot = Polling

\* the keys that requests for licenses of these classes carry
KeysOf(types) == {generate_license_key(prefix_map(t), r) : t \in types, r \in Randoms}

\* the requests of one behaviour concern one license: no request so far named
\* another key and no other key is in the table
Focus(k) ==
    /\ DOMAIN licenses \subseteq {k}
    /\ \A i \in DOMAIN responses : responses[i].key \in {k, EmptyKey}
    /\ \A w \in InFlight : "key" \in DOMAIN req[w] => req[w].key = k

\* the workers are interchangeable: a request goes to the first free one
Dispatch(w) == \A v \in Workers : v < w => req[v].pc # "idle"

\* worker w takes the next request, which names key k, while fewer than limit
\* requests have been received
Admit(w, k, limit) == Received < limit /\ Focus(k) /\ Dispatch(w)

(* Spec: every handler, any number of them in flight at once. *)
Next ==
    \/ Tick
    \/ \E w \in Workers, ip \in ClientIPs, k \in KeysOf(LicenseTypes), d \in DeviceIds :
         Admit(w, k, MaxRequests) /\ activate_license_select(w, k, d, ip)
    \/ \E w \in Workers, ip \in ClientIPs, k \in KeysOf(LicenseTypes), d \in DeviceIds :
         Admit(w, k, MaxRequests) /\ verify_license(w, k, d, ip)
    \/ \E w \in Workers, ip \in ClientIPs, k \in KeysOf(LicenseTypes), d \in DeviceIds :
         Admit(w, k, MaxRequests) /\ license_info(w, k, d, ip)
    \/ \E w \in Workers, ip \in ClientIPs, t \in LicenseTypes, randoms \in [1..1 -> Randoms] :
         Admit(w, generated_keys(t, randoms)[1], MaxRequests) /\ generate_license(w, t, 1, randoms, ip)
    \/ \E w \in Workers, ip \in ClientIPs, k \in KeysOf(LicenseTypes) :
         Admit(w, k, MaxRequests) /\ block_license(w, k, ip)
    \/ \E w \in Workers, ip \in ClientIPs, k \in KeysOf(LicenseTypes) :
         Admit(w, k, MaxRequests) /\ unblock_license(w, k, ip)
    \/ \E w \in Workers, ip \in ClientIPs, k \in KeysOf(LicenseTypes) :
         Admit(w, k, MaxRequests) /\ reset_hwid(w, k, ip)
    \/ \E w \in Workers, ip \in ClientIPs, k \in KeysOf(LicenseTypes), days \in ExtendDays :
         Admit(w, k, MaxRequests) /\ extend_license_select(w, k, days, ip)
    \/ \E w \in Workers, ip \in ClientIPs, k \in KeysOf(LicenseTypes) :
         Admit(w, k, MaxRequests) /\ delete_license(w, k, ip)
    \/ \E w \in Workers : activate_license_reject(w)
    \/ \E w \in Workers : activate_license_update(w)
    \/ \E w \in Workers : activate_license_log(w)
    \/ \E w \in Workers : generate_license_log(w)
    \/ \E w \in Workers : block_license_log(w)
    \/ \E w \in Workers : unblock_license_log(w)
    \/ \E w \in Workers : reset_hwid_log(w)
    \/ \E w \in Workers : extend_license_update(w)
    \/ \E w \in Workers : extend_license_log(w)
    \/ \E w \in Workers : delete_license_log(w)

Spec == Init /\ [][Next]_vars

(* SpecSeq: one request at a time (a single worker): activation, verification *)
(* and blocking.                                                              *)
NextSeq ==
    \/ Tick
    \/ \E ip \in ClientIPs, k \in KeysOf(LicenseTypes), d \in DeviceIds :
         Admit(1, k, MaxCalls) /\ activate_license_select(1, k, d, ip)
    \/ \E ip \in ClientIPs, k \in KeysOf(LicenseTypes), d \in DeviceIds :
         Admit(1, k, MaxCalls) /\ verify_license(1, k, d, ip)
    \/ \E ip \in ClientIPs, t \in LicenseTypes, randoms \in [1..1 -> Randoms] :
         Admit(1, generated_keys(t, randoms)[1], MaxCalls) /\ generate_license(1, t, 1, randoms, ip)
    \/ \E ip \in ClientIPs, k \in KeysOf(LicenseTypes) :
         Admit(1, k, MaxCalls) /\ block_license(1, k, ip)
    \/ \E ip \in ClientIPs, k \in KeysOf(LicenseTypes) :
         Admit(1, k, MaxCalls) /\ unblock_license(1, k, ip)
    \/ activate_license_reject(1)
    \/ activate_license_update(1)
    \/ activate_license_log(1)
    \/ generate_license_log(1)
    \/ block_license_log(1)
    \/ unblock_license_log(1)

SpecSeq == Init /\ [][NextSeq]_vars

----------------------------------------------------------------------------
(* Vocabulary of the properties: the error taxonomy, and how requests lie   *)
(* in time relative to each other.                                          *)

\* the kind of an outcome of activate, from its message
ActivateMessageKind(message) ==
    CASE message \in {"License activated", "first activation"} -> "Success"
      [] message = "Invalid license key"                       -> "NotFound"
      [] message = "License is blocked"                        -> "Blocked"
      [] message = "License expired"                           -> "Expired"
      [] message = "License bound to another device"           -> "DeviceMismatch"
      [] OTHER                                                 -> "InvalidInput"

ActivateKind(r) == ActivateMessageKind(r.body.message)

VerifyKind(r) ==
    CASE r.body.valid                                        -> "Success"
      [] r.body.message = "Key not found"                    -> "NotFound"
      [] r.body.message = "License blocked"                  -> "Blocked"
      [] r.body.message = "License expired"                  -> "Expired"
      [] r.body.message = "HWID mismatch"                    -> "DeviceMismatch"
      [] OTHER                                               -> "InvalidInput"

Answered == DOMAIN responses

\* responses[i] and responses[j], i sent first, answer requests that overlapped:
\* the request of j had arrived before i was answered
Overlap(i, j) == i < j /\ responses[j].seen < i

\* the request answered by responses[m] ran entirely before the request of
\* responses[i] arrived, or arrived after responses[j] was sent
Outside(m, i, j) ==
    \/ m <= Min(responses[i].seen, responses[j].seen)
    \/ responses[m].seen >= j

\* no request still in flight arrived before responses[j] was sent
NoneInFlightSince(j) == \A w \in InFlight : req[w].id.seen >= j

\* a license as generate leaves it and nothing has changed: pending and unblocked
Pending(lic, k) == k \in DOMAIN lic /\ lic[k].activated = 0 /\ lic[k].blocked = 0

TwoActivates(i, j) ==
    /\ responses[i].op = "activate" /\ responses[j].op = "activate"
    /\ responses[i].key = responses[j].key
    /\ responses[i].hwid # responses[j].hwid

----------------------------------------------------------------------------
(* C1..C3: first activation under racing requests *)

\* C1: of the activate requests that run concurrently on the same key with pairwise
\* distinct device ids, with no resetDevice on the key in between, at most one
\* returns success.
C1_AtMostOneWinner ==
    \A i, j \in Answered :
        ( /\ TwoActivates(i, j)
          /\ Overlap(i, j)
          /\ Pending(responses[i].store_before, responses[i].key)
          /\ Pending(responses[j].store_before, responses[j].key)
          /\ \A m \in Answered : responses[m].op = "reset-hwid" => Outside(m, i, j)
          /\ \A w \in InFlight : req[w].pc = "admin_log" => req[w].op # "reset-hwid" )
        => ~(responses[i].status = 200 /\ responses[j].status = 200)

\* C2: two concurrent activate requests on the same fresh (pending, unblocked,
\* unexpired) key with distinct device ids, and nothing else running: exactly one
\* returns success and the other DeviceMismatch.
C2_ExactlyOneWinner ==
    \A i, j \in Answered :
        ( /\ TwoActivates(i, j)
          /\ Overlap(i, j)
          /\ LET first == IF responses[i].id < responses[j].id THEN i ELSE j
                 k == responses[first].key
             IN  /\ Pending(responses[first].store_before, k)
                 /\ ~IsPast(responses[first].store_before[k].expires_at, responses[j].at)
          /\ \A m \in Answered \ {i, j} : Outside(m, i, j)
          /\ NoneInFlightSince(j) )
        => {ActivateKind(responses[i]), ActivateKind(responses[j])}
              = {"Success", "DeviceMismatch"}

\* C3: a stored deviceId that is non-null never changes to another non-null value
\* in one step (a resetDevice in between would pass through null), and neither do
\* the activation timestamp and origin stored with it.
C3_BindingNeverOverwritten ==
    [][ \A k \in DOMAIN licenses \cap DOMAIN licenses' :
          (licenses[k].hwid # NULL /\ licenses'[k].hwid # NULL)
          => /\ licenses'[k].hwid = licenses[k].hwid
             /\ licenses'[k].activation_date = licenses[k].activation_date
             /\ licenses'[k].activation_ip = licenses[k].activation_ip ]_vars

----------------------------------------------------------------------------
(* C4, C5, C7..C9: one request at a time (SpecSeq) *)

\* responses[i] and responses[i + 1] answer two successive requests: the second
\* arrived after the first was answered and no request lies between them
Successive(i) ==
    /\ i \in Answered /\ i + 1 \in Answered
    /\ responses[i + 1].id = responses[i].id + 1
    /\ responses[i + 1].seen >= i

C5_LaterOtherDeviceRejected ==
    \A i \in Answered :
        ( /\ Successive(i)
          /\ responses[i].op = "activate" /\ responses[i + 1].op = "activate"
          /\ responses[i].key = responses[i + 1].key
          /\ responses[i].hwid # responses[i + 1].hwid
          /\ responses[i].status = 200 )
        => LET k == responses[i].key IN
           /\ ActivateKind(responses[i + 1]) = "DeviceMismatch"
           /\ k \in DOMAIN responses[i + 1].store_after
           /\ responses[i + 1].store_after[k].hwid = Some(responses[i].hwid)

\* C5 amended: after activate(key, A) has succeeded, the next request activate(key, B)
\* with B # A, made while the license is still unexpired, returns DeviceMismatch and
\* leaves the stored deviceId equal to A.
C5_OtherDeviceRejected ==
    \A i \in Answered :
        ( /\ Successive(i)
          /\ responses[i].op = "activate" /\ responses[i + 1].op = "activate"
          /\ responses[i].key = responses[i + 1].key
          /\ responses[i].hwid # responses[i + 1].hwid
          /\ responses[i].status = 200
          /\ LET k == responses[i].key
                 before == responses[i + 1].store_before
             IN  k \in DOMAIN before
                 => ~IsPast(before[k].expires_at, responses[i + 1].received_at) )
        => LET k == responses[i].key IN
           /\ ActivateKind(responses[i + 1]) = "DeviceMismatch"
           /\ responses[i + 1].status = 403
           /\ k \in DOMAIN responses[i + 1].store_after
           /\ responses[i + 1].store_after[k].hwid = Some(responses[i].hwid)

\* C5's case: device A has activated and device B is turned away
C5_Witness ==
    \E i \in Answered :
        /\ Successive(i)
        /\ responses[i].op = "activate" /\ responses[i + 1].op = "activate"
        /\ responses[i].key = responses[i + 1].key
        /\ responses[i].hwid # responses[i + 1].hwid
        /\ responses[i].status = 200
        /\ ActivateKind(responses[i + 1]) = "DeviceMismatch"

\* block(key) answered by responses[i], then unblock(key) answered by responses[i + 1],
\* and the license is expired after the unblock exactly if it was before the block
BlockThenUnblock(i) ==
    /\ Successive(i)
    /\ responses[i].op = "block" /\ responses[i + 1].op = "unblock"
    /\ responses[i].key = responses[i + 1].key
    /\ LET k == responses[i].key
           before == responses[i].store_before
       IN  k \in DOMAIN before
           => ( IsPast(before[k].expires_at, responses[i].received_at)
                <=> IsPast(before[k].expires_at, responses[i + 1].at) )

\* what verify(key, d) answers on a table at a time, for every device d
VerifyAnswers(lic, k, t) == [d \in DeviceIds |-> verify_body(lic, k, d, t)]

\* C7 as stated: after block(key), verify(key, d) is invalid for every d; after the
\* following unblock(key), verify(key, d) answers what it answered before the block.
C7_BlockUnblockRestores ==
    \A i \in Answered :
        BlockThenUnblock(i)
        => LET k == responses[i].key IN
           /\ \A d \in DeviceIds :
                ~verify_body(responses[i].store_after, k, d, responses[i].at).valid
           /\ VerifyAnswers(responses[i + 1].store_after, k, responses[i + 1].at)
                = VerifyAnswers(responses[i].store_before, k, responses[i].received_at)

\* C7 amended: the same, for a license that was not blocked before the block.
C7_BlockUnblockRestoresUnblocked ==
    \A i \in Answered :
        ( /\ BlockThenUnblock(i)
          /\ LET k == responses[i].key
                 before == responses[i].store_before
             IN  k \in DOMAIN before => before[k].blocked = 0 )
        => LET k == responses[i].key IN
           /\ \A d \in DeviceIds :
                ~verify_body(responses[i].store_after, k, d, responses[i].at).valid
           /\ VerifyAnswers(responses[i + 1].store_after, k, responses[i + 1].at)
                = VerifyAnswers(responses[i].store_before, k, responses[i].received_at)

\* C7's case: a license that verified as valid is blocked and then unblocked
C7_Witness ==
    \E i \in Answered :
        /\ BlockThenUnblock(i)
        /\ responses[i].status = 200 /\ responses[i + 1].status = 200
        /\ \E d \in DeviceIds :
             /\ verify_body(responses[i].store_before, responses[i].key, d,
                            responses[i].received_at).valid
             /\ verify_body(responses[i + 1].store_after, responses[i].key, d,
                            responses[i + 1].at).valid

\* C8: activate reports the first applicable rejection in the order NotFound,
\* Blocked, Expired, DeviceMismatch, judged on the row its SELECT saw; and a
\* rejection is never a success.
C8_RejectionOrder ==
    \A i \in Answered :
        (responses[i].op = "activate" /\ responses[i].status # 400)
        => LET r == responses[i]
               before == r.store_before
               found == r.key \in DOMAIN before
               row == before[r.key]
               blocked == row.blocked = 1
               expired == row.expires_at # NULL /\ row.expires_at[1] < r.received_at
               foreign == row.activated = 1 /\ row.hwid # Some(r.hwid)
           IN  /\ ~found => ActivateKind(r) = "NotFound"
               /\ (found /\ blocked) => ActivateKind(r) = "Blocked"
               /\ (found /\ ~blocked /\ expired) => ActivateKind(r) = "Expired"
               /\ (found /\ ~blocked /\ ~expired /\ foreign)
                     => ActivateKind(r) = "DeviceMismatch"
               /\ ActivateKind(r) # "Success" => (r.status # 200 /\ ~r.body.success)
               /\ ActivateKind(r) = "Success" => (r.status = 200 /\ r.body.success)

\* C8's case: an activate on a license that is blocked and expired and bound to
\* another device
C8_Witness ==
    \E i \in Answered :
        /\ responses[i].op = "activate"
        /\ responses[i].key \in DOMAIN responses[i].store_before
        /\ LET row == responses[i].store_before[responses[i].key] IN
           /\ row.blocked = 1
           /\ IsPast(row.expires_at, responses[i].received_at)
           /\ row.activated = 1 /\ row.hwid # Some(responses[i].hwid)
        /\ ActivateKind(responses[i]) = "Blocked"

\* C9: on an activated license, verify(key, d) reports invalid exactly when
\* activate(key, d) would fail on the same row at the same time, and with the same
\* rejection kind.
C9_VerifyReplaysActivate ==
    \A i \in Answered :
        ( /\ responses[i].op = "verify" /\ responses[i].status = 200
          /\ responses[i].key \in DOMAIN responses[i].store_before
          /\ responses[i].store_before[responses[i].key].activated = 1 )
        => VerifyKind(responses[i])
             = ActivateMessageKind(activate_check(responses[i].store_before,
                    responses[i].key, responses[i].hwid, responses[i].received_at))

----------------------------------------------------------------------------
(* C6, C10: invariants and frame conditions of the interleaved handlers (Spec) *)

\* C6: in every reachable state, every license has deviceId non-null if and only
\* if activated is true.
C6_DeviceIffActivated ==
    \A k \in DOMAIN licenses : (licenses[k].hwid # NULL) <=> (licenses[k].activated = 1)

\* C6's case: an activated license has been reset
C6_Witness ==
    \E i \in Answered :
        /\ responses[i].op = "reset-hwid" /\ responses[i].status = 200
        /\ \E j \in Answered :
             /\ j < i
             /\ responses[j].op = "activate" /\ responses[j].status = 200
             /\ responses[j].store_after[responses[j].key].hwid = Some(responses[j].hwid)
        /\ \A k \in DOMAIN licenses : licenses[k].hwid = NULL /\ licenses[k].activated = 0

\* C10: a step in which verify or info answers leaves the licenses table (every
\* row, every field, the set of keys) as it was.
C10_VerifyInfoReadOnly ==
    [][ ( /\ Len(responses') = Len(responses) + 1
          /\ responses'[Len(responses')].op \in {"verify", "info"} )
        => licenses' = licenses ]_vars

\* C10's case: verify has answered valid and info has answered with a projection
C10_Witness ==
    \E i \in Answered :
        /\ responses[i].op \in {"verify", "info"}
        /\ responses[i].status = 200
        /\ responses[i].key \in DOMAIN responses[i].store_after
        /\ responses[i].store_after[responses[i].key].hwid = Some(responses[i].hwid)

----------------------------------------------------------------------------
(* C11: device reset, one request at a time (SpecReset) *)

(* SpecReset: one request at a time: generation, activation and device reset. *)
NextReset ==
    \/ Tick
    \/ \E ip \in ClientIPs, k \in KeysOf(LicenseTypes), d \in DeviceIds :
         Admit(1, k, MaxCalls) /\ activate_license_select(1, k, d, ip)
    \/ \E ip \in ClientIPs, t \in LicenseTypes, randoms \in [1..1 -> Randoms] :
         Admit(1, generated_keys(t, randoms)[1], MaxCalls) /\ generate_license(1, t, 1, randoms, ip)
    \/ \E ip \in ClientIPs, k \in KeysOf(LicenseTypes) :
         Admit(1, k, MaxCalls) /\ reset_hwid(1, k, ip)
    \/ activate_license_reject(1)
    \/ activate_license_update(1)
    \/ activate_license_log(1)
    \/ generate_license_log(1)
    \/ reset_hwid_log(1)

SpecReset == Init /\ [][NextReset]_vars

\* responses[i] answers a reset of a license that was activated
ResetOfActivated(i) ==
    /\ i \in Answered
    /\ responses[i].op = "reset-hwid"
    /\ responses[i].key \in DOMAIN responses[i].store_before
    /\ responses[i].store_before[responses[i].key].activated = 1

\* C11: resetting the device of an activated license succeeds and leaves deviceId
\* null, activated false and activation date and origin null; the activate(key, B)
\* that follows it, the license neither blocked nor expired, succeeds for every
\* device B and binds B.
C11_ResetThenActivate ==
    \A i \in Answered :
        ResetOfActivated(i)
        => LET k == responses[i].key
               after == responses[i].store_after
           IN  /\ responses[i].status = 200
               /\ k \in DOMAIN after
               /\ after[k].hwid = NULL /\ after[k].activated = 0
               /\ after[k].activation_date = NULL /\ after[k].activation_ip = NULL
               /\ after[k] = [responses[i].store_before[k] EXCEPT
                                 !.hwid = NULL, !.activated = 0,
                                 !.activation_date = NULL, !.activation_ip = NULL]
               /\ ( /\ Successive(i)
                    /\ responses[i + 1].op = "activate" /\ responses[i + 1].key = k
                    /\ after[k].blocked = 0
                    /\ ~IsPast(after[k].expires_at, responses[i + 1].received_at) )
                  => /\ responses[i + 1].status = 200 /\ responses[i + 1].body.success
                     /\ responses[i + 1].store_after[k].hwid = Some(responses[i + 1].hwid)
                     /\ responses[i + 1].store_after[k].activated = 1

\* C11's case: a license bound to one device is reset and then activated by another
C11_Witness ==
    \E i \in Answered :
        /\ ResetOfActivated(i)
        /\ Successive(i)
        /\ responses[i + 1].op = "activate" /\ responses[i + 1].key = responses[i].key
        /\ responses[i].store_before[responses[i].key].hwid # Some(responses[i + 1].hwid)
        /\ responses[i + 1].status = 200

----------------------------------------------------------------------------
(* C12, C13: extension, one request at a time (SpecExtend) *)

(* SpecExtend: one request at a time: generation and extension. *)
NextExtend ==
    \/ Tick
    \/ \E ip \in ClientIPs, t \in LicenseTypes, randoms \in [1..1 -> Randoms] :
         Admit(1, generated_keys(t, randoms)[1], MaxCalls) /\ generate_license(1, t, 1, randoms, ip)
    \/ \E ip \in ClientIPs, k \in KeysOf(LicenseTypes), days \in ExtendDays :
         Admit(1, k, MaxCalls) /\ extend_license_select(1, k, days, ip)
    \/ generate_license_log(1)
    \/ extend_license_update(1)
    \/ extend_license_log(1)

SpecExtend == Init /\ [][NextExtend]_vars

\* the days an answered extend request asked for
ExtendedBy(r) == r.body.message[2]

\* C12: a successful extend(key, days) of a license with an expiry date leaves
\* expiresAt = max(now, currentExpiry) + days, now being the time of the call:
\* counted from now when the license had expired, from the stored date otherwise.
C12_ExtendFromMax ==
    \A i \in Answered :
        (responses[i].op = "extend" /\ responses[i].status = 200)
        => LET r == responses[i]
               k == r.key
               current == r.store_before[k].expires_at
           IN  /\ current # NULL
               /\ r.store_after[k].expires_at
                    = Some(Max(r.received_at, current[1]) + ExtendedBy(r))
               /\ r.body.new_expiry = r.store_after[k].expires_at
               /\ current[1] < r.received_at
                    => r.store_after[k].expires_at = Some(r.received_at + ExtendedBy(r))
               /\ current[1] >= r.received_at
                    => r.store_after[k].expires_at = Some(current[1] + ExtendedBy(r))

\* C12's case: an expired license has been extended, counted from the day of the call
C12_Witness ==
    \E i \in Answered :
        /\ responses[i].op = "extend" /\ responses[i].status = 200
        /\ IsPast(responses[i].store_before[responses[i].key].expires_at,
                  responses[i].received_at)
        /\ responses[i].store_after[responses[i].key].expires_at
             = Some(responses[i].received_at + ExtendedBy(responses[i]))

\* C13: extend on a license without expiry date fails (400, "Lifetime license cannot
\* be extended") and leaves the licenses table as it was; the expiresAt of a
\* lifetime license is null in every state.
C13_LifetimeNotExtensible ==
    /\ \A i \in Answered :
         ( /\ responses[i].op = "extend"
           /\ responses[i].key \in DOMAIN responses[i].store_before
           /\ responses[i].store_before[responses[i].key].expires_at = NULL )
         => /\ responses[i].status = 400
            /\ responses[i].body = [error |-> "Lifetime license cannot be extended"]
            /\ responses[i].store_after = responses[i].store_before
    /\ \A k \in DOMAIN licenses : licenses[k].type = "lifetime" => licenses[k].expires_at = NULL

\* C13's case: extend has been called twice on a lifetime license
C13_Witness ==
    \E i, j \in Answered :
        /\ i < j
        /\ responses[i].op = "extend" /\ responses[j].op = "extend"
        /\ responses[i].key = responses[j].key
        /\ responses[i].key \in DOMAIN responses[i].store_before
        /\ responses[i].store_before[responses[i].key].type = "lifetime"
        /\ responses[j].status = 400

----------------------------------------------------------------------------
(* C14: concurrent extensions (Spec) *)

\* C14: two concurrent extend(key, d1) and extend(key, d2) on the same license,
\* unexpired throughout and touched by no other request meanwhile, leave expiresAt
\* advanced by d1 + d2 from its value before both.
C14_NoLostExtension ==
    \A i, j \in Answered :
        ( /\ Overlap(i, j)
          /\ responses[i].op = "extend" /\ responses[j].op = "extend"
          /\ responses[i].key = responses[j].key
          /\ responses[i].status = 200 /\ responses[j].status = 200
          /\ LET first == IF responses[i].id < responses[j].id THEN i ELSE j
                 k == responses[first].key
             IN  responses[first].store_before[k].expires_at[1] >= responses[j].at
          /\ \A m \in Answered \ {i, j} : Outside(m, i, j)
          /\ NoneInFlightSince(j) )
        => LET first == IF responses[i].id < responses[j].id THEN i ELSE j
               k == responses[first].key
           IN  responses[j].store_after[k].expires_at
                 = Some(responses[first].store_before[k].expires_at[1]
                        + ExtendedBy(responses[i]) + ExtendedBy(responses[j]))

----------------------------------------------------------------------------
(* C15..C17: batches of keys, one request at a time (SpecGenerate) *)

\* the counts asked for
Counts == {1, 2, 101}

\* what n calls of the generator may draw: n fresh values, n values that meet
\* values drawn before, or the same value n times
RandomRuns(n) == {[i \in 1..n |-> i], [i \in 1..n |-> i + 1], [i \in 1..n |-> 1]}

(* SpecGenerate: one request at a time: batches of any size. *)
NextGenerate ==
    \/ Tick
    \/ \E ip \in ClientIPs, t \in LicenseTypes, count \in Counts :
         \E randoms \in RandomRuns(batch_count(count)) :
            Received < MaxPair /\ generate_license(1, t, count, randoms, ip)
    \/ generate_license_log(1)

SpecGenerate == Init /\ [][NextGenerate]_vars

\* the keys a generate response reports as created
KeysCreated(r) == {r.body.keys[n] : n \in DOMAIN r.body.keys}

KeysDrawn(r) == generated_keys(r.type, r.drawn)

\* C17: a generate whose generator draws a key that already exists fails, stores
\* none of its batch and leaves every license as it was; and a generate that
\* succeeds reports only keys that did not exist, one for each draw.
C17_CollisionAllOrNothing ==
    \A i \in Answered :
        responses[i].op = "generate"
        => LET r == responses[i]
               drawn == KeysDrawn(r)
           IN  /\ (\E n \in DOMAIN drawn : drawn[n] \in DOMAIN r.store_before)
                    => /\ r.status = 500
                       /\ "keys" \notin DOMAIN r.body
                       /\ r.store_after = r.store_before
               /\ r.status # 200 => r.store_after = r.store_before
               /\ r.status = 200
                    => /\ KeysCreated(r) \cap DOMAIN r.store_before = {}
                       /\ r.body.keys = drawn
                       /\ \A k \in DOMAIN r.store_before :
                            k \in DOMAIN r.store_after /\ r.store_after[k] = r.store_before[k]

\* C17's case: the first draw of a batch was new and the second one existed
C17_Witness ==
    \E i \in Answered :
        /\ responses[i].op = "generate" /\ responses[i].status = 500
        /\ Len(KeysDrawn(responses[i])) >= 2
        /\ KeysDrawn(responses[i])[1] \notin DOMAIN responses[i].store_before
        /\ KeysDrawn(responses[i])[2] \in DOMAIN responses[i].store_before
        /\ licenses = responses[i].store_before

----------------------------------------------------------------------------
(* C16, C18: administration of one license, one request at a time (SpecAdmin) *)

(* SpecAdmin: one request at a time: generation, the four single-statement *)
(* operations, activation and verification.                               *)
NextAdmin ==
    \/ Tick
    \/ \E ip \in ClientIPs, t \in LicenseTypes, randoms \in [1..1 -> Randoms] :
         Admit(1, generated_keys(t, randoms)[1], MaxRequests) /\ generate_license(1, t, 1, randoms, ip)
    \/ \E ip \in ClientIPs, k \in KeysOf(LicenseTypes) :
         Admit(1, k, MaxRequests) /\ block_license(1, k, ip)
    \/ \E ip \in ClientIPs, k \in KeysOf(LicenseTypes) :
         Admit(1, k, MaxRequests) /\ unblock_license(1, k, ip)
    \/ \E ip \in ClientIPs, k \in KeysOf(LicenseTypes) :
         Admit(1, k, MaxRequests) /\ reset_hwid(1, k, ip)
    \/ \E ip \in ClientIPs, k \in KeysOf(LicenseTypes) :
         Admit(1, k, MaxRequests) /\ delete_license(1, k, ip)
    \/ \E ip \in ClientIPs, k \in KeysOf(LicenseTypes), d \in DeviceIds :
         Admit(1, k, MaxRequests) /\ activate_license_select(1, k, d, ip)
    \/ \E ip \in ClientIPs, k \in KeysOf(LicenseTypes), d \in DeviceIds :
         Admit(1, k, MaxRequests) /\ verify_license(1, k, d, ip)
    \/ generate_license_log(1)
    \/ block_license_log(1)
    \/ unblock_license_log(1)
    \/ reset_hwid_log(1)
    \/ delete_license_log(1)
    \/ activate_license_reject(1)
    \/ activate_license_update(1)
    \/ activate_license_log(1)

SpecAdmin == Init /\ [][NextAdmin]_vars

\* C16: once a key has been created, no later generate creates a license with that
\* key again, even after the first license was deleted.
C16_KeyNeverReused ==
    \A i, j \in Answered :
        ( /\ i < j
          /\ responses[i].op = "generate" /\ responses[i].status = 200
          /\ responses[j].op = "generate" /\ responses[j].status = 200 )
        => KeysCreated(responses[i]) \cap KeysCreated(responses[j]) = {}


\* C18: block, unblock, reset and delete on a key that does not exist answer 404
\* "Key not found" and leave the licenses table as it was; on a key that exists they
\* succeed and take effect; and activate and verify on a key just deleted report
\* not-found.
C18_UnknownKeyNotFound ==
    \A i \in Answered :
        responses[i].op \in {"block", "unblock", "reset-hwid", "delete"}
        => LET r == responses[i]
               k == r.key
           IN  /\ k \notin DOMAIN r.store_before
                    => /\ r.status = 404
                       /\ r.body = [error |-> "Key not found"]
                       /\ r.store_after = r.store_before
               /\ k \in DOMAIN r.store_before
                    => /\ r.status = 200 /\ r.body.success
                       /\ r.op = "block" => r.store_after[k].blocked = 1
                       /\ r.op = "unblock" => r.store_after[k].blocked = 0
                       /\ r.op = "reset-hwid" => r.store_after[k].hwid = NULL
                       /\ r.op = "delete" => k \notin DOMAIN r.store_after
               /\ (r.op = "delete" /\ Successive(i) /\ responses[i + 1].key = k)
                    => /\ responses[i + 1].op = "activate"
                            => /\ ActivateKind(responses[i + 1]) = "NotFound"
                               /\ responses[i + 1].status = 404
                       /\ responses[i + 1].op = "verify"
                            => VerifyKind(responses[i + 1]) = "NotFound"

\* C18's case: a license is deleted and the next request, a verify, finds no key
C18_Witness ==
    \E i \in Answered :
        /\ responses[i].op = "delete" /\ responses[i].status = 200
        /\ Successive(i)
        /\ responses[i + 1].op \in {"verify", "activate"}
        /\ responses[i + 1].key = responses[i].key
        /\ responses[i + 1].body.message \in {"Key not found", "Invalid license key"}

----------------------------------------------------------------------------
(* C19: requests to /admin with and without the token (SpecAuth) *)

(* SpecAuth: one request at a time: every admin route without the right header, *)
(* and generation, blocking and deletion with it.                               *)
NextAuth ==
    \/ Tick
    \/ \E ip \in ClientIPs, k \in KeysOf(LicenseTypes), op \in AdminEndpoints,
          auth \in Authorizations :
         Admit(1, k, MaxPair) /\ admin_required(1, op, k, auth, ip)
    \/ \E ip \in ClientIPs, t \in LicenseTypes, randoms \in [1..1 -> Randoms],
          auth \in Authorizations :
         /\ authorized(auth)
         /\ Admit(1, generated_keys(t, randoms)[1], MaxPair)
         /\ generate_license(1, t, 1, randoms, ip)
    \/ \E ip \in ClientIPs, k \in KeysOf(LicenseTypes), auth \in Authorizations :
         authorized(auth) /\ Admit(1, k, MaxPair) /\ block_license(1, k, ip)
    \/ \E ip \in ClientIPs, k \in KeysOf(LicenseTypes), auth \in Authorizations :
         authorized(auth) /\ Admit(1, k, MaxPair) /\ delete_license(1, k, ip)
    \/ generate_license_log(1)
    \/ block_license_log(1)
    \/ delete_license_log(1)

SpecAuth == Init /\ [][NextAuth]_vars

\* the responses to admin requests that came without the right header
Unauthenticated == {i \in Answered : "auth" \in DOMAIN responses[i]}

\* C19: an admin request without the right bearer token is answered 401
\* "Unauthorized", on every admin route, in a single step that begins with the
\* request's arrival and leaves the licenses table as it was; a 401 is given to no
\* request that carries the right token.
C19_UnauthorizedTouchesNothing ==
    [][ ( /\ Len(responses') = Len(responses) + 1
          /\ "auth" \in DOMAIN responses'[Len(responses')] )
        => LET r == responses'[Len(responses')] IN
           /\ r.auth # Some("Bearer ADMIN_PASSWORD")
           /\ r.op \in AdminEndpoints
           /\ r.status = 401
           /\ r.body = [error |-> "Unauthorized"]
           /\ r.store_before = licenses
           /\ licenses' = licenses ]_vars

\* C19's case: a delete with a wrong token on a license that exists
C19_Witness ==
    \E i \in Unauthenticated :
        /\ responses[i].op = "delete"
        /\ responses[i].auth = Some("Bearer guess")
        /\ responses[i].key \in DOMAIN responses[i].store_before
        /\ responses[i].key \in DOMAIN licenses

----------------------------------------------------------------------------
(* C20: the rate limiter, one request at a time (SpecRate) *)

\* time.time() moves on
Advance(dt) ==
    /\ time + dt <= MaxClock
    /\ time' = time + dt
    /\ UNCHANGED <<launcher, admin_bot>>
    /\ UNCHANGED <<licenses, activity_logs, now, req, responses, rate_limit_storage>>

\* a verify from the first address
Plain(op, ip) == op = "verify" /\ ip = "ip1"

\* the requests received so far that are no verify from the first address
Others ==
    Cardinality({i \in Answered : ~Plain(responses[i].op, responses[i].ip)})
    + Cardinality(InFlight)

\* the next request may be this one
AdmitRate(op, ip) ==
    /\ Received < MaxRateRequests
    /\ Plain(op, ip) \/ Others < MaxOther

(* SpecRate: one request at a time: client requests on a key that does not *)
(* exist, from two addresses, admitted or turned away by the limiter.      *)
NextRate ==
    \/ \E dt \in TimeSteps : Advance(dt)
    \/ \E ip \in SourceIPs, k \in KeysOf({"lifetime"}), d \in {"hwA"} :
         AdmitRate("verify", ip) /\ verify_license(1, k, d, ip)
    \/ \E ip \in SourceIPs, k \in KeysOf({"lifetime"}), d \in {"hwA"} :
         AdmitRate("activate", ip) /\ activate_license_select(1, k, d, ip)
    \/ \E ip \in SourceIPs, k \in KeysOf({"lifetime"}), d \in {"hwA"} :
         AdmitRate("info", ip) /\ license_info(1, k, d, ip)
    \/ \E ip \in SourceIPs, k \in KeysOf({"lifetime"}), d \in {"hwA"},
          op \in {"activate", "verify", "info"} :
         AdmitRate(op, ip) /\ rate_limited(1, op, k, d, ip)
    \/ activate_license_reject(1)

SpecRate == Init /\ [][NextRate]_vars

\* responses[j] answers a request that was admitted, came from the address of
\* responses[i], before it, and less than a window before it
AdmittedInWindow(j, i) ==
    /\ j < i
    /\ responses[j].op \in {"activate", "verify", "info"}
    /\ responses[j].status # 429
    /\ responses[j].ip = responses[i].ip
    /\ responses[j].clock > responses[i].clock - RATE_LIMIT_WINDOW

\* C20: a client request that arrives when its source address has
\* RATE_LIMIT_REQUESTS admitted requests in the trailing RATE_LIMIT_WINDOW is answered
\* 429 and its handler does not run; with fewer it is admitted; so no address has
\* more than RATE_LIMIT_REQUESTS admitted requests in a window.
C20_RateLimited ==
    \A i \in Answered :
        responses[i].op \in {"activate", "verify", "info"}
        => LET r == responses[i]
               n == Cardinality({j \in Answered : AdmittedInWindow(j, i)})
           IN  /\ n >= RATE_LIMIT_REQUESTS
                    => /\ r.status = 429
                       /\ r.body = [error |-> "Too many requests. Try again later."]
                       /\ r.store_after = r.store_before
               /\ n < RATE_LIMIT_REQUESTS => r.status # 429
               /\ r.status # 429 => n + 1 <= RATE_LIMIT_REQUESTS

\* C20's case: an address is turned away and, a window later, admitted again
C20_Witness ==
    \E i, j \in Answered :
        /\ i < j
        /\ responses[i].ip = responses[j].ip
        /\ responses[i].status = 429
        /\ responses[j].op \in {"activate", "verify", "info"}
        /\ responses[j].status # 429

----------------------------------------------------------------------------
(* The read-only handlers over a populated table (C21, C23, C29)            *)

\* the classes of the licenses in the populated table
StoreTypes == {"trial_1day", "trial_3days", "lifetime"}

\* the address the requests that populated the table came from
PopulatingIP == "ip0"

\* the class a key was generated for, from its prefix
TypeOf(k) == CHOOSE t \in StoreTypes : prefix_map(t) = k[1]

\* data.get('notes', '') of the generate request that created the key
NotesOf(k) == IF TypeOf(k) = "trial_3days" THEN "vip" ELSE ""

\* the days data.get('days', 30) of an extend request has added to the expiry that
\* generate_license set (any integer is taken, a negative one too)
ExtendedDays == {-2, -1, 0, 1}

\* expires_at of a license generated on day 0 and extended since
StoredExpiries(k) ==
    LET days == duration_map(TypeOf(k))
    IN  IF days = NULL THEN {NULL}
        ELSE {Some(days[1] + e) : e \in ExtendedDays} \cap {Some(1), Some(2)}

\* the rows the handlers can have left for key k by day 0: generated, then perhaps
\* extended, activated from a device, blocked
StoredRows(k) ==
    {[NewRow(k, TypeOf(k), 0, e, NotesOf(k)) EXCEPT
         !.hwid = b, !.activated = IF b = NULL THEN 0 ELSE 1,
         !.activation_date = IF b = NULL THEN NULL ELSE Some(0),
         !.activation_ip = IF b = NULL THEN NULL ELSE Some(PopulatingIP),
         !.blocked = bl] :
        e \in StoredExpiries(k), b \in {NULL} \cup {Some(d) : d \in DeviceIds}, bl \in {0, 1}}

\* the tables of one license of each class
Stores ==
    {lic \in [KeysOf(StoreTypes) -> UNION {StoredRows(k) : k \in KeysOf(StoreTypes)}] :
        \A k \in KeysOf(StoreTypes) : lic[k] \in StoredRows(k)}

\* what log_activity has written for the requests that left row: the generation, the
\* extension, the activation and the block
PopulatingLog(row) ==
    LET entry(action, license_key, hwid, details) ==
            [timestamp |-> 0, action |-> action, license_key |-> license_key,
             hwid |-> hwid, ip_address |-> PopulatingIP, details |-> details]
        days == duration_map(row.type)
    IN  <<entry("KEYS_GENERATED", NULL, NULL, <<"Type", row.type, "Count", 1>>)>>
        \o (IF days # NULL /\ row.expires_at # Some(days[1])
            THEN <<entry("KEY_EXTENDED", row.key, NULL,
                         <<"Added days", row.expires_at[1] - days[1]>>)>>
            ELSE <<>>)
        \o (IF row.activated # 0
            THEN <<entry("ACTIVATION_SUCCESS", row.key, row.hwid, <<"Type", row.type>>)>>
            ELSE <<>>)
        \o (IF row.blocked # 0
            THEN <<entry("KEY_BLOCKED", row.key, NULL, NULL)>>
            ELSE <<>>)

RECURSIVE PopulatingLogs(_, _)
PopulatingLogs(lic, keys) ==
    IF keys = {} THEN <<>>
    ELSE LET k == CHOOSE x \in keys : TRUE
         IN  PopulatingLog(lic[k]) \o PopulatingLogs(lic, keys \ {k})

\* day 0, the table populated by earlier requests from another address, no request
\* in flight
InitStore ==
    /\ licenses \in Stores
    /\ activity_logs = PopulatingLogs(licenses, DOMAIN licenses)
    /\ now = 0
    /\ req = [w \in Workers |-> IdleReq]
    /\ responses = <<>>
    /\ rate_limit_storage = [ip \in SourceIPs |-> <<>>]
    /\ time = 0
    /\ launcher = Launched
    /\ admin_bot = Polling

----------------------------------------------------------------------------
(* C21: verification of the licenses of a populated table (SpecVerify) *)

(* SpecVerify: verify requests, one at a time, on a populated table. *)
NextVerify ==
    \/ Tick
    \/ \E ip \in ClientIPs, k \in KeysOf(StoreTypes), d \in DeviceIds :
         Received < MaxPair /\ verify_license(1, k, d, ip)

SpecVerify == InitStore /\ [][NextVerify]_vars

\* the four fields of the license that a response r is about, as r's handler found them
ValidityFields(r) ==
    LET row == r.store_before[r.key]
    IN  <<row.blocked, row.expires_at, row.hwid, row.activated>>

\* what verify reports on validity: the flag and, when it is false, the reason
ReportedValidity(r) ==
    IF r.body.valid THEN <<TRUE>> ELSE <<FALSE, r.body.message>>

\* C21: two verify calls for the same device at the same time, on licenses that agree
\* on (blocked, expiresAt, deviceId, activated), report the same validity, whatever
\* the licenses' class, notes, creation date and audit log.
C21_ValidityIsAFunction ==
    \A i, j \in Answered :
        ( /\ responses[i].op = "verify" /\ responses[j].op = "verify"
          /\ responses[i].status = 200 /\ responses[j].status = 200
          /\ responses[i].key \in DOMAIN responses[i].store_before
          /\ responses[j].key \in DOMAIN responses[j].store_before
          /\ responses[i].hwid = responses[j].hwid
          /\ responses[i].received_at = responses[j].received_at
          /\ ValidityFields(responses[i]) = ValidityFields(responses[j]) )
        => ReportedValidity(responses[i]) = ReportedValidity(responses[j])

C21_Witness ==
    \E i, j \in Answered :
        /\ responses[i].op = "verify" /\ responses[j].op = "verify"
        /\ responses[i].key # responses[j].key
        /\ responses[i].hwid = responses[j].hwid
        /\ responses[i].received_at = responses[j].received_at
        /\ ValidityFields(responses[i]) = ValidityFields(responses[j])
        /\ responses[i].store_before[responses[i].key].type
              # responses[j].store_before[responses[j].key].type
        /\ responses[i].store_before[responses[i].key].notes
              # responses[j].store_before[responses[j].key].notes
        /\ responses[i].body.valid /\ responses[j].body.valid
        /\ responses[i].received_at = MaxTime

----------------------------------------------------------------------------
(* C22: a license whose expiry has passed (SpecExpire) *)

(* SpecExpire: one request at a time on one license that expires: generation, *)
(* activation, verification, blocking, unblocking, reset and extension.       *)
NextExpire ==
    \/ Tick
    \/ \E ip \in ClientIPs, randoms \in [1..1 -> Randoms] :
         /\ Admit(1, generated_keys("trial_1day", randoms)[1], MaxCalls)
         /\ generate_license(1, "trial_1day", 1, randoms, ip)
    \/ \E ip \in ClientIPs, k \in KeysOf({"trial_1day"}), d \in DeviceIds :
         Admit(1, k, MaxCalls) /\ activate_license_select(1, k, d, ip)
    \/ \E ip \in ClientIPs, k \in KeysOf({"trial_1day"}), d \in DeviceIds :
         Admit(1, k, MaxCalls) /\ verify_license(1, k, d, ip)
    \/ \E ip \in ClientIPs, k \in KeysOf({"trial_1day"}) :
         Admit(1, k, MaxCalls) /\ block_license(1, k, ip)
    \/ \E ip \in ClientIPs, k \in KeysOf({"trial_1day"}) :
         Admit(1, k, MaxCalls) /\ unblock_license(1, k, ip)
    \/ \E ip \in ClientIPs, k \in KeysOf({"trial_1day"}) :
         Admit(1, k, MaxCalls) /\ reset_hwid(1, k, ip)
    \/ \E ip \in ClientIPs, k \in KeysOf({"trial_1day"}), days \in ExtendDays :
         Admit(1, k, MaxCalls) /\ extend_license_select(1, k, days, ip)
    \/ generate_license_log(1)
    \/ activate_license_reject(1)
    \/ activate_license_update(1)
    \/ activate_license_log(1)
    \/ block_license_log(1)
    \/ unblock_license_log(1)
    \/ reset_hwid_log(1)
    \/ extend_license_update(1)
    \/ extend_license_log(1)

SpecExpire == Init /\ [][NextExpire]_vars

\* license k exists in table lic and its expiry has passed on day t
ExpiredAt(lic, k, t) == k \in DOMAIN lic /\ IsPast(lic[k].expires_at, t)

\* responses[j] answers a verify or an activate on key k that arrived after
\* responses[i] was sent, and no extend on k succeeded in between
NotExtendedBetween(i, j, k) ==
    /\ i < j /\ responses[j].seen >= i
    /\ responses[j].op \in {"verify", "activate"} /\ responses[j].key = k
    /\ \A m \in Answered :
         (i < m /\ m < j /\ responses[m].op = "extend" /\ responses[m].key = k)
         => responses[m].status # 200

\* C22: once the expiry of a license has passed, every later verify on it reports
\* invalid and every later activate on it reports Expired or Blocked, whatever
\* activate, resetDevice, block and unblock requests come in between, until an
\* extend on the key succeeds.
C22_ExpiredUntilExtended ==
    \A i, j \in Answered :
        ( /\ ExpiredAt(responses[i].store_after, responses[j].key, responses[i].at)
          /\ NotExtendedBetween(i, j, responses[j].key) )
        => IF responses[j].op = "verify"
           THEN ~responses[j].body.valid
           ELSE ActivateKind(responses[j]) \in {"Expired", "Blocked"}

C22_Witness ==
    \E i, m, j \in Answered :
        /\ ExpiredAt(responses[i].store_after, responses[j].key, responses[i].at)
        /\ NotExtendedBetween(i, j, responses[j].key)
        /\ i < m /\ m < j
        /\ responses[m].op \in {"reset-hwid", "unblock"} /\ responses[m].status = 200
        /\ responses[j].op = "activate" /\ ActivateKind(responses[j]) = "Expired"

----------------------------------------------------------------------------
(* C23: the status of a license as list, stats and export report it (SpecRead) *)

\* the query parameters of the list requests: none, a class and a status, a search
\* term, a limit of one
ListRequests ==
    {[type |-> NULL, status |-> NULL, search |-> "", limit |-> 100],
     [type |-> Some("trial_1day"), status |-> Some("expired"), search |-> "", limit |-> 100],
     [type |-> NULL, status |-> NULL, search |-> "hwA", limit |-> 100],
     [type |-> NULL, status |-> Some("pending"), search |-> "", limit |-> 1]}

(* SpecRead: list, stats and export requests, one at a time, on a populated table. *)
NextRead ==
    \/ Tick
    \/ \E ip \in ClientIPs, q \in ListRequests :
         Received < MaxPair /\ list_licenses(1, q.type, q.status, q.search, q.limit, ip)
    \/ \E ip \in ClientIPs : Received < MaxPair /\ get_stats(1, ip)
    \/ \E ip \in ClientIPs, format \in {"json", "text"} :
         Received < MaxPair /\ export_licenses(1, format, ip)

SpecRead == InitStore /\ [][NextRead]_vars

\* responses[j] answers a list request without filters that returned the whole table,
\* and responses[i] a request that found the same table on the same day
SameTableListed(i, j) ==
    /\ responses[j].op = "list"
    /\ responses[j].args.type = NULL /\ responses[j].args.status = NULL
    /\ responses[j].args.search = ""
    /\ responses[j].body.count = Cardinality(DOMAIN responses[j].store_before)
    /\ responses[i].store_before = responses[j].store_before
    /\ responses[i].received_at = responses[j].received_at

\* the number of licenses a list answer reports with a status
Listed(r, status) == Cardinality({x \in r.body.licenses : x.status = status})

\* the status of list that a status column of the text export stands for
ExportedStatus(status) ==
    CASE status = "BLOCKED" -> "blocked"
      [] status = "ACTIVE"  -> "active"
      [] status = "PENDING" -> "pending"
      [] OTHER              -> "expired"

\* C23: for every table, the blocked, expired and pending counts of stats are the
\* numbers of licenses that list reports with that status, and the text export gives
\* each license the status list gives it. (stats returns no count of active licenses.)
C23_StatusUniform ==
    \A i, j \in Answered :
        SameTableListed(i, j)
        => /\ responses[i].op = "stats"
              => /\ responses[i].body.blocked = Listed(responses[j], "blocked")
                 /\ responses[i].body.expired = Listed(responses[j], "expired")
                 /\ responses[i].body.pending = Listed(responses[j], "pending")
           /\ (responses[i].op = "export" /\ responses[i].args.format = "text")
              => \A line \in responses[i].body.lines, x \in responses[j].body.licenses :
                    line.key = x.key => ExportedStatus(line.status) = x.status

----------------------------------------------------------------------------
(* C24..C26: the audit trail *)

\* the administrative mutations and the action each one logs
AdminMutations == {"generate", "block", "unblock", "reset-hwid", "extend", "delete"}

MutationAction(op) ==
    CASE op = "generate"   -> "KEYS_GENERATED"
      [] op = "block"      -> "KEY_BLOCKED"
      [] op = "unblock"    -> "KEY_UNBLOCKED"
      [] op = "reset-hwid" -> "HWID_RESET"
      [] op = "extend"     -> "KEY_EXTENDED"
      [] op = "delete"     -> "KEY_DELETED"

\* this step sends a response
Responds == Len(responses') = Len(responses) + 1

\* the response this step sends
Sent == responses'[Len(responses')]

\* this step appends exactly one audit entry, e
AppendsEntry(e) == activity_logs' = Append(activity_logs, e)

\* C24: a request for an administrative mutation that succeeds appends exactly one
\* audit entry, in the step that returns its response and in no earlier step of its
\* handler; the entry carries the action of the operation and, for the operations
\* on one key, the key.
C24_MutationLoggedOnce ==
    [][ /\ ~Responds => activity_logs' = activity_logs
        /\ (Responds /\ Sent.op \in AdminMutations /\ Sent.status = 200)
           => \E e \in {activity_logs'[Len(activity_logs')]} :
                 /\ AppendsEntry(e)
                 /\ e.action = MutationAction(Sent.op)
                 /\ Sent.op # "generate" => e.license_key = Sent.key ]_vars

C24_Witness ==
    \E i, j, m \in Answered :
        /\ responses[i].op = "generate" /\ responses[i].status = 200
        /\ responses[j].op = "extend" /\ responses[j].status = 200
        /\ responses[m].op = "delete" /\ responses[m].status = 200
        /\ Len(activity_logs) = 3
        /\ activity_logs[1].action = "KEYS_GENERATED"
        /\ {activity_logs[2].action, activity_logs[3].action} = {"KEY_EXTENDED", "KEY_DELETED"}
        /\ activity_logs[2].license_key = responses[j].key
        /\ activity_logs[3].license_key = responses[j].key

\* a response that reports a failure of note: a rejected activate (not found, blocked,
\* expired, bound to another device), a verify that reports invalid for one of these
\* reasons, a rate-limited call, an unauthorized admin call
FailureOfNote(r) ==
    \/ r.op = "activate" /\ r.status \in {403, 404}
    \/ r.op = "verify" /\ r.status = 200 /\ ~r.body.valid
    \/ r.status \in {401, 429}

\* this step appends exactly one audit entry and leaves the earlier ones as they were
AppendsOne ==
    /\ Len(activity_logs') = Len(activity_logs) + 1
    /\ \A n \in DOMAIN activity_logs : activity_logs'[n] = activity_logs[n]

\* C25: a call that ends in a failure of note, through activate or through verify,
\* appends exactly one audit entry before it returns.
C25_FailureLoggedOnce ==
    [][ (Responds /\ FailureOfNote(Sent)) => AppendsOne ]_vars

\* the same for the failures of activate alone
ActivateFailureLoggedOnce ==
    [][ (Responds /\ FailureOfNote(Sent) /\ Sent.op = "activate") => AppendsOne ]_vars

\* the same for the calls that the two decorators turn away
TurnedAwayLoggedOnce ==
    [][ (Responds /\ Sent.status \in {401, 429}) => AppendsOne ]_vars

\* C26: the audit trail is append-only: in every step every entry that existed is
\* still there with the same fields (also when the license it names is deleted), and
\* the number of entries does not decrease.
C26_AuditAppendOnly ==
    [][ /\ Len(activity_logs') >= Len(activity_logs)
        /\ \A n \in DOMAIN activity_logs :
             n \in DOMAIN activity_logs' /\ activity_logs'[n] = activity_logs[n] ]_vars

C26_Witness ==
    \E i \in Answered, n, m \in DOMAIN activity_logs :
        /\ responses[i].op = "delete" /\ responses[i].status = 200
        /\ responses[i].key \notin DOMAIN licenses
        /\ n < m
        /\ activity_logs[n].license_key = responses[i].key
        /\ activity_logs[n].action \in {"ACTIVATION_SUCCESS", "KEY_BLOCKED"}
        /\ activity_logs[m].license_key = responses[i].key
        /\ activity_logs[m].action = "KEY_DELETED"

----------------------------------------------------------------------------
(* C27, C28: what each operation changes (SpecFrame) *)

\* what search requests look for
SearchTerms == {"T1", "T1D", "hwA"}

(* SpecFrame: every handler that reads or writes the licenses table, one request *)
(* at a time on one license.                                                     *)
NextFrame ==
    \/ Tick
    \/ \E ip \in ClientIPs, t \in LicenseTypes, randoms \in [1..1 -> Randoms] :
         Admit(1, generated_keys(t, randoms)[1], MaxRequests) /\ generate_license(1, t, 1, randoms, ip)
    \/ \E ip \in ClientIPs, k \in KeysOf(LicenseTypes), d \in DeviceIds :
         Admit(1, k, MaxRequests) /\ activate_license_select(1, k, d, ip)
    \/ \E ip \in ClientIPs, k \in KeysOf(LicenseTypes), d \in DeviceIds :
         Admit(1, k, MaxRequests) /\ verify_license(1, k, d, ip)
    \/ \E ip \in ClientIPs, k \in KeysOf(LicenseTypes), d \in DeviceIds :
         Admit(1, k, MaxRequests) /\ license_info(1, k, d, ip)
    \/ \E ip \in ClientIPs, k \in KeysOf(LicenseTypes) :
         Admit(1, k, MaxRequests) /\ block_license(1, k, ip)
    \/ \E ip \in ClientIPs, k \in KeysOf(LicenseTypes) :
         Admit(1, k, MaxRequests) /\ unblock_license(1, k, ip)
    \/ \E ip \in ClientIPs, k \in KeysOf(LicenseTypes) :
         Admit(1, k, MaxRequests) /\ reset_hwid(1, k, ip)
    \/ \E ip \in ClientIPs, k \in KeysOf(LicenseTypes), days \in ExtendDays :
         Admit(1, k, MaxRequests) /\ extend_license_select(1, k, days, ip)
    \/ \E ip \in ClientIPs, k \in KeysOf(LicenseTypes) :
         Admit(1, k, MaxRequests) /\ delete_license(1, k, ip)
    \/ \E ip \in ClientIPs, q \in ListRequests :
         Received < MaxRequests /\ list_licenses(1, q.type, q.status, q.search, q.limit, ip)
    \/ \E ip \in ClientIPs, q \in SearchTerms :
         Received < MaxRequests /\ search_license(1, q, ip)
    \/ \E ip \in ClientIPs : Received < MaxRequests /\ get_stats(1, ip)
    \/ \E ip \in ClientIPs, format \in {"json", "text"} :
         Received < MaxRequests /\ export_licenses(1, format, ip)
    \/ activate_license_reject(1)
    \/ activate_license_update(1)
    \/ activate_license_log(1)
    \/ generate_license_log(1)
    \/ block_license_log(1)
    \/ unblock_license_log(1)
    \/ reset_hwid_log(1)
    \/ extend_license_update(1)
    \/ extend_license_log(1)
    \/ delete_license_log(1)

SpecFrame == Init /\ [][NextFrame]_vars

\* this step is the INSERT and commit of a generate request
GenerateStep == \E w \in Workers : req[w].pc = "idle" /\ req'[w].pc = "generate_log"

\* this step is the DELETE and commit of a delete request
DeleteStep ==
    \E w \in Workers : req[w].pc = "idle" /\ req'[w].pc = "admin_log" /\ req'[w].op = "delete"

\* C27: the set of existing keys changes only through generate, which adds keys, and
\* delete, which removes one: no step of activate, verify, info, block, unblock,
\* resetDevice, extend, list, search, stats or export and no passing of time creates
\* or removes a license, an expired one included.
C27_KeysByGenerateAndDelete ==
    [][ /\ DOMAIN licenses' \ DOMAIN licenses # {}
           => GenerateStep /\ DOMAIN licenses \subseteq DOMAIN licenses'
        /\ DOMAIN licenses \ DOMAIN licenses' # {}
           => DeleteStep /\ DOMAIN licenses' \subseteq DOMAIN licenses ]_vars

C27_Witness ==
    \E i, j \in Answered, k \in DOMAIN licenses :
        /\ ExpiredAt(licenses, k, now)
        /\ i < j
        /\ ExpiredAt(responses[i].store_before, k, responses[i].received_at)
        /\ responses[i].op \in {"list", "search", "stats"}
        /\ responses[j].op \in {"activate", "verify", "info", "block", "unblock",
                                "reset-hwid", "extend"}
        /\ responses[j].key = k
        /\ responses[j].status \in {200, 403}

\* this step is the UPDATE and commit of a request of operation op on key k
UpdateStep(op, k) ==
    \E w \in Workers :
        /\ "key" \in DOMAIN req'[w] /\ req'[w].key = k
        /\ CASE op = "activate" -> req[w].pc = "activate_update" /\ req'[w].pc = "activate_log"
             [] op = "extend"   -> req[w].pc = "extend_update" /\ req'[w].pc = "extend_log"
             [] OTHER           -> /\ req[w].pc = "idle" /\ req'[w].pc = "admin_log"
                                   /\ req'[w].op = op

\* the binding of a license: the device, the flag, the activation date and origin
Binding(row) == <<row.hwid, row.activated, row.activation_date, row.activation_ip>>

\* in every step and for every license that exists before and after it: key, class
\* and creation date do not change, and each other field changes only in the update
\* of a handler that writes it, for a request on that key
FieldsByTheirHandler ==
    [][ \A k \in DOMAIN licenses \cap DOMAIN licenses' :
          /\ licenses'[k].key = licenses[k].key
          /\ licenses'[k].type = licenses[k].type
          /\ licenses'[k].created_at = licenses[k].created_at
          /\ licenses'[k].notes = licenses[k].notes
          /\ licenses'[k].expires_at # licenses[k].expires_at => UpdateStep("extend", k)
          /\ licenses'[k].blocked # licenses[k].blocked
             => UpdateStep("block", k) \/ UpdateStep("unblock", k)
          /\ Binding(licenses'[k]) # Binding(licenses[k])
             => UpdateStep("activate", k) \/ UpdateStep("reset-hwid", k) ]_vars

\* C28: in every step and for every license that exists before and after it: key,
\* class and creation date do not change; expiresAt changes only in the update of an
\* extend on that key; blocked only in the update of a block or unblock on that key;
\* deviceId, activated and the activation date and origin only in the update of a
\* first activation (of a license that is not activated) or of a resetDevice on
\* that key.
C28_FieldsByTheirOperation ==
    [][ \A k \in DOMAIN licenses \cap DOMAIN licenses' :
          /\ licenses'[k].key = licenses[k].key
          /\ licenses'[k].type = licenses[k].type
          /\ licenses'[k].created_at = licenses[k].created_at
          /\ licenses'[k].expires_at # licenses[k].expires_at => UpdateStep("extend", k)
          /\ licenses'[k].blocked # licenses[k].blocked
             => UpdateStep("block", k) \/ UpdateStep("unblock", k)
          /\ Binding(licenses'[k]) # Binding(licenses[k])
             => \/ UpdateStep("activate", k) /\ licenses[k].activated = 0
                \/ UpdateStep("reset-hwid", k) ]_vars

----------------------------------------------------------------------------
(* C29: info on the licenses of a populated table (SpecInfo) *)

(* SpecInfo: info requests, one at a time, on a populated table: for the keys of *)
(* the table and a key that is not in it, with a device id and without one.     *)
NextInfo ==
    \/ Tick
    \/ \E ip \in ClientIPs, k \in KeysOf(StoreTypes \cup {"weekly"}), d \in DeviceIds \cup {""} :
         Received < MaxPair /\ license_info(1, k, d, ip)

SpecInfo == InitStore /\ [][NextInfo]_vars

\* C29: info(key, d) answers with a projection exactly when a license with that key
\* exists and is bound to device d, and with not-found otherwise (so for every
\* pending license); the projection shows the license's fields with the key masked,
\* and its days-remaining is the number of days from now to expiresAt, 0 when that
\* is negative (so 0 for an expired license), and null for a license without expiry.
C29_InfoProjection ==
    \A i \in Answered :
        responses[i].op = "info"
        => LET r == responses[i]
               lic == r.store_before
               bound == r.key \in DOMAIN lic /\ lic[r.key].hwid = Some(r.hwid)
           IN  /\ r.status = (IF bound THEN 200 ELSE 404)
               /\ ~bound => r.body = [error |-> "License not found"]
               /\ (r.key \in DOMAIN lic /\ lic[r.key].activated = 0) => r.status = 404
               /\ bound =>
                    LET row == lic[r.key] IN
                    /\ r.body.key = <<row.key[1], "...">>
                    /\ r.body.type = row.type /\ r.body.created_at = row.created_at
                    /\ r.body.expires_at = row.expires_at
                    /\ r.body.activated = (row.activated = 1)
                    /\ r.body.blocked = (row.blocked = 1)
                    /\ (row.expires_at = NULL) = (r.body.days_left = NULL)
                    /\ row.expires_at # NULL =>
                         /\ r.body.days_left[1] >= 0
                         /\ row.expires_at[1] >= r.received_at
                            => r.body.days_left[1] = row.expires_at[1] - r.received_at
                         /\ row.expires_at[1] < r.received_at => r.body.days_left[1] = 0

C29_Witness ==
    \E i, j \in Answered :
        /\ responses[i].op = "info" /\ responses[i].status = 200
        /\ responses[i].body.days_left = Some(0)
        /\ responses[i].store_before[responses[i].key].expires_at = Some(1)
        /\ responses[i].received_at = 2
        /\ responses[j].op = "info" /\ responses[j].status = 404
        /\ responses[j].key \in DOMAIN responses[j].store_before
        /\ responses[j].store_before[responses[j].key].activated = 0

----------------------------------------------------------------------------
(* C30: list on a table of more licenses than the cap (SpecList) *)

\* the values of the limit parameter: negative, zero, the cap
ListLimits == {-1, 0, MAX_LIMIT}

\* the counts generate requests ask for
BatchCounts == {1, MAX_COUNT}

\* the number of generate requests received so far
Batches ==
    Cardinality({i \in Answered : responses[i].op = "generate"})
    + Cardinality({w \in InFlight : req[w].pc = "generate_log"})

\* the number of list requests received so far
Lists == Cardinality({i \in Answered : responses[i].op = "list"})

\* random parts that generate_license_key has not drawn before
FreshRandoms(n) == [i \in 1..n |-> Cardinality(DOMAIN licenses) + i]

(* SpecList: batches of lifetime licenses are generated until the table holds one *)
(* license more than the cap of list, and list requests come in between.         *)
NextList ==
    \/ \E ip \in ClientIPs, count \in BatchCounts :
         /\ Batches < MaxBatches
         /\ Cardinality(DOMAIN licenses) + count <= MAX_LIMIT + 1
         /\ generate_license(1, "lifetime", count, FreshRandoms(count), ip)
    \/ generate_license_log(1)
    \/ \E ip \in ClientIPs, limit \in ListLimits :
         Lists < MaxLists /\ list_licenses(1, NULL, NULL, "", limit, ip)

SpecList == Init /\ [][NextList]_vars

\* C30: for every value of the limit parameter, zero and negative ones included,
\* list returns at most 500 licenses.
C30_ListAtMostCap ==
    \A i \in Answered :
        responses[i].op = "list"
        => /\ responses[i].body.count <= MAX_LIMIT
           /\ Cardinality(responses[i].body.licenses) <= MAX_LIMIT

\* the same for the values of limit that are not negative
ListAtMostCapFromZero ==
    \A i \in Answered :
        (responses[i].op = "list" /\ responses[i].args.limit >= 0)
        => /\ responses[i].body.count <= MAX_LIMIT
           /\ Cardinality(responses[i].body.licenses) <= MAX_LIMIT
           /\ responses[i].body.count <= responses[i].args.limit

----------------------------------------------------------------------------
(* C31..C33: a write that comes after the row it relies on has changed *)

\* C31: no device is bound to a license that is blocked when the binding is written:
\* a step that sets deviceId on a license leaves from a state in which the license
\* is not blocked, and an activate whose license was blocked when its update ran
\* does not return success.
C31_NoBindingWhileBlocked ==
    [][ \A k \in DOMAIN licenses \cap DOMAIN licenses' :
          (licenses'[k].hwid # NULL /\ licenses'[k].hwid # licenses[k].hwid)
          => licenses[k].blocked = 0 ]_vars

\* worker w runs the UPDATE of a first activation in this step; its next step logs
\* ACTIVATION_SUCCESS and returns success
ActivateWrites(w) == req[w].pc = "activate_update" /\ req'[w].pc = "activate_log"

\* worker w runs the UPDATE of an extend in this step; its next step logs
\* KEY_EXTENDED and returns success with the new expiry
ExtendWrites(w) == req[w].pc = "extend_update" /\ req'[w].pc = "extend_log"

\* C32: a first-activation request goes on to return success only if its write
\* bound the supplied device to an existing license that was still pending: not
\* when the license was deleted, or activated by another device, between the
\* request's read and its write.
C32_SuccessOnlyIfBound ==
    [][ \A w \in Workers :
          ActivateWrites(w)
          => /\ req[w].key \in DOMAIN licenses
             /\ licenses[req[w].key].activated = 0
             /\ licenses'[req[w].key].hwid = Some(req[w].hwid) ]_vars

\* the same, for the license deleted in between alone
SuccessOnlyIfExists ==
    [][ \A w \in Workers : ActivateWrites(w) => req[w].key \in DOMAIN licenses' ]_vars

\* C33: an extend request goes on to return success with a new expiry only if its
\* write set the stored expiresAt of an existing license to that value: not when
\* the license was deleted between the request's read and its write.
C33_ExtendOnlyIfStored ==
    [][ \A w \in Workers :
          ExtendWrites(w)
          => /\ req[w].key \in DOMAIN licenses'
             /\ licenses'[req[w].key].expires_at = req[w].new_expiry ]_vars

----------------------------------------------------------------------------
(* C34: a request that ends between two of its steps *)

\* the endpoint a request in flight was sent to
handler_of(r) ==
    CASE r.pc \in {"activate_update", "activate_reject", "activate_log"} -> "activate"
      [] r.pc \in {"extend_update", "extend_log"}                        -> "extend"
      [] r.pc = "generate_log"                                            -> "generate"
      [] OTHER                                                            -> r.op

\* the handler of worker w ends where it stands: its next statement, or the INSERT
\* of log_activity, raises (sqlite3.OperationalError) or the process is stopped.
\* Every statement run so far was committed on its own connection and stays; the
\* client gets 500 at best.
InternalServerError(w) ==
    /\ req[w].pc # "idle"
    /\ UNCHANGED <<licenses, activity_logs, now>>
    /\ Return(w, Reply(req[w].id, handler_of(req[w]),
                       IF "key" \in DOMAIN req[w] THEN req[w].key ELSE EmptyKey, "", 500,
                       [success |-> FALSE]))
    /\ UNCHANGED <<rate_limit_storage, time, launcher, admin_bot>>

(* SpecAbandon: the handlers that write to the licenses table, any number of them
   in flight at once, any of which may end at any of its steps. *)
NextAbandon ==
    \/ \E w \in Workers, ip \in ClientIPs, k \in KeysOf(LicenseTypes), d \in DeviceIds :
         Admit(w, k, MaxRequests) /\ activate_license_select(w, k, d, ip)
    \/ \E w \in Workers, ip \in ClientIPs, t \in LicenseTypes, randoms \in [1..1 -> Randoms] :
         Admit(w, generated_keys(t, randoms)[1], MaxRequests) /\ generate_license(w, t, 1, randoms, ip)
    \/ \E w \in Workers, ip \in ClientIPs, k \in KeysOf(LicenseTypes) :
         Admit(w, k, MaxRequests) /\ block_license(w, k, ip)
    \/ \E w \in Workers, ip \in ClientIPs, k \in KeysOf(LicenseTypes) :
         Admit(w, k, MaxRequests) /\ reset_hwid(w, k, ip)
    \/ \E w \in Workers, ip \in ClientIPs, k \in KeysOf(LicenseTypes), days \in ExtendDays :
         Admit(w, k, MaxRequests) /\ extend_license_select(w, k, days, ip)
    \/ \E w \in Workers, ip \in ClientIPs, k \in KeysOf(LicenseTypes) :
         Admit(w, k, MaxRequests) /\ delete_license(w, k, ip)
    \/ \E w \in Workers : activate_license_reject(w)
    \/ \E w \in Workers : activate_license_update(w)
    \/ \E w \in Workers : activate_license_log(w)
    \/ \E w \in Workers : generate_license_log(w)
    \/ \E w \in Workers : block_license_log(w)
    \/ \E w \in Workers : reset_hwid_log(w)
    \/ \E w \in Workers : extend_license_update(w)
    \/ \E w \in Workers : extend_license_log(w)
    \/ \E w \in Workers : delete_license_log(w)
    \/ \E w \in Workers : InternalServerError(w)

SpecAbandon == Init /\ [][NextAbandon]_vars

\* some audit entry has this action and this key
Audited(action, k) ==
    \E i \in DOMAIN activity_logs :
        activity_logs[i].action = action /\ activity_logs[i].license_key = k

\* a request on key k stands before the log_activity call of this endpoint
BeforeLog(op, k) ==
    \E w \in InFlight :
        /\ req[w].pc \in {"activate_log", "extend_log", "admin_log"}
        /\ handler_of(req[w]) = op
        /\ req[w].key = k

\* the expiry a license of this row's class is created with
CreatedExpiry(row) ==
    IF duration_map(row.type) = NULL THEN NULL
    ELSE Some(row.created_at + duration_map(row.type)[1])

\* C34: once the requests on a license have ended, the effects the table shows have
\* their audit entries: an activated license has an ACTIVATION_SUCCESS entry, a
\* blocked one a KEY_BLOCKED entry, one whose expiry is not the one it was created
\* with a KEY_EXTENDED entry, whichever way the requests ended.
C34_EffectsWithTheirEntries ==
    \A k \in DOMAIN licenses :
        /\ (licenses[k].activated = 1 /\ ~BeforeLog("activate", k))
           => Audited("ACTIVATION_SUCCESS", k)
        /\ (licenses[k].blocked = 1 /\ ~BeforeLog("block", k))
           => Audited("KEY_BLOCKED", k)
        /\ (licenses[k].expires_at # CreatedExpiry(licenses[k]) /\ ~BeforeLog("extend", k))
           => Audited("KEY_EXTENDED", k)

----------------------------------------------------------------------------
(* C35: verification of a license that is bound to no device (SpecPending) *)

(* SpecPending: one request at a time: generation, activation, device reset and
   verification. *)
NextPending ==
    \/ Tick
    \/ \E ip \in ClientIPs, k \in KeysOf(LicenseTypes), d \in DeviceIds :
         Admit(1, k, MaxCalls) /\ activate_license_select(1, k, d, ip)
    \/ \E ip \in ClientIPs, t \in LicenseTypes, randoms \in [1..1 -> Randoms] :
         Admit(1, generated_keys(t, randoms)[1], MaxCalls) /\ generate_license(1, t, 1, randoms, ip)
    \/ \E ip \in ClientIPs, k \in KeysOf(LicenseTypes) :
         Admit(1, k, MaxCalls) /\ reset_hwid(1, k, ip)
    \/ \E ip \in ClientIPs, k \in KeysOf(LicenseTypes), d \in DeviceIds :
         Admit(1, k, MaxCalls) /\ verify_license(1, k, d, ip)
    \/ activate_license_reject(1)
    \/ activate_license_update(1)
    \/ activate_license_log(1)
    \/ generate_license_log(1)
    \/ reset_hwid_log(1)

SpecPending == Init /\ [][NextPending]_vars

\* responses[i] answers a verify with a device id, on a license that was not
\* activated when the request read it
VerifyOfPending(i) ==
    /\ responses[i].op = "verify"
    /\ responses[i].hwid # ""
    /\ responses[i].key \in DOMAIN responses[i].store_before
    /\ responses[i].store_before[responses[i].key].activated = 0

\* C35: verify on a license that was never activated, or was reset and not activated
\* again, never answers valid, whatever the device id.
C35_PendingNeverValid ==
    \A i \in DOMAIN responses : VerifyOfPending(i) => responses[i].body.valid = FALSE

\* a license activated by a device and then reset is verified for that device
C35_Witness ==
    \E i, j \in DOMAIN responses :
        /\ i < j
        /\ responses[i].op = "reset-hwid" /\ responses[i].status = 200
        /\ responses[i].key = responses[j].key
        /\ responses[i].store_before[responses[i].key].hwid = Some(responses[j].hwid)
        /\ VerifyOfPending(j)
        /\ responses[j].store_before[responses[j].key].blocked = 0
        /\ responses[j].body.valid = FALSE

----------------------------------------------------------------------------
(* C36, C37: check_rate_limit statement by statement, requests handled by threads
   (SpecLimiter) *)

MaxLimiterRequests == 4    \* requests received in a behaviour of SpecLimiter
MaxLimiterClock == 118     \* the seconds clock of SpecLimiter runs from 0 to it

\* time.time() moves on
Elapse(dt) ==
    /\ time + dt <= MaxLimiterClock
    /\ time' = time + dt
    /\ UNCHANGED <<launcher, admin_bot>>
    /\ UNCHANGED <<licenses, activity_logs, now, req, responses, rate_limit_storage>>

\* now = time.time(), and the list comprehension reads rate_limit_storage[ip] and
\* builds the list of the entries younger than the window
check_rate_limit_read(w, license_key, hwid, ip) ==
    /\ CanReceive(w)
    /\ req' = [req EXCEPT ![w] =
                 [pc |-> "limiter_store", id |-> Arrival(ip), key |-> license_key,
                  hwid |-> hwid, ip |-> ip, now |-> time,
                  read |-> rate_limit_storage[ip],
                  kept |-> rate_limit_kept(rate_limit_storage[ip], time)]]
    /\ UNCHANGED <<licenses, activity_logs, now, responses, rate_limit_storage, time, launcher, admin_bot>>

\* rate_limit_storage[ip] = <the list built>
check_rate_limit_store(w) ==
    /\ req[w].pc = "limiter_store"
    /\ rate_limit_storage' = [rate_limit_storage EXCEPT ![req[w].ip] = req[w].kept]
    /\ req' = [req EXCEPT ![w].pc = "limiter_len"]
    /\ UNCHANGED <<licenses, activity_logs, now, responses, time, launcher, admin_bot>>

\* if len(rate_limit_storage[ip]) >= RATE_LIMIT_REQUESTS: return False, and the
\* decorator logs and answers 429
check_rate_limit_len(w) ==
    /\ req[w].pc = "limiter_len"
    /\ UNCHANGED <<licenses, now, rate_limit_storage, time, launcher, admin_bot>>
    /\ IF Len(rate_limit_storage[req[w].ip]) >= RATE_LIMIT_REQUESTS
       THEN /\ log_activity("RATE_LIMIT_EXCEEDED", NULL, NULL, req[w].ip, <<"IP", req[w].ip>>)
            /\ Return(w, Reply(req[w].id, "verify", req[w].key, req[w].hwid, 429,
                               [error |-> "Too many requests. Try again later."]))
       ELSE /\ req' = [req EXCEPT ![w].pc = "limiter_append"]
            /\ UNCHANGED <<activity_logs, responses>>

\* rate_limit_storage[ip].append(now); return True, and the decorator calls the
\* handler (verify_license)
check_rate_limit_append(w) ==
    /\ req[w].pc = "limiter_append"
    /\ rate_limit_storage' = [rate_limit_storage EXCEPT ![req[w].ip] = Append(@, req[w].now)]
    /\ UNCHANGED <<licenses, activity_logs, now, time, launcher, admin_bot>>
    /\ Return(w, Reply(req[w].id, "verify", req[w].key, req[w].hwid, 200,
                       verify_body(licenses, req[w].key, req[w].hwid, now)))

(* SpecLimiter: verify requests from one address on a key that does not exist,
   any number of them in flight at once, each going through check_rate_limit
   statement by statement, after the address has been admitted some times. *)
NextLimiter ==
    \/ \E dt \in TimeSteps : Elapse(dt)
    \/ \E w \in Workers, ip \in ClientIPs, k \in KeysOf({"lifetime"}), d \in {"hwA"} :
         /\ Received < MaxLimiterRequests
         /\ Dispatch(w)
         /\ check_rate_limit_read(w, k, d, ip)
    \/ \E w \in Workers : check_rate_limit_store(w)
    \/ \E w \in Workers : check_rate_limit_len(w)
    \/ \E w \in Workers : check_rate_limit_append(w)

\* n entries of one timestamp
Stamps(n, t) == [i \in 1..n |-> t]

\* second 59, the address having been admitted some times at second 0 and some times
\* at second 59, RATE_LIMIT_REQUESTS times at most, one request after the other; no
\* request in flight
InitLimiter ==
    /\ licenses = [k \in {} |-> NULL]
    /\ activity_logs = <<>>
    /\ now = 0
    /\ req = [w \in Workers |-> IdleReq]
    /\ responses = <<>>
    /\ time = 59
    /\ launcher = Launched
    /\ admin_bot = Polling
    /\ \E m, n \in 0..RATE_LIMIT_REQUESTS :
         /\ m + n <= RATE_LIMIT_REQUESTS
         /\ rate_limit_storage =
              [ip \in SourceIPs |-> IF ip \in ClientIPs THEN Stamps(m, 0) \o Stamps(n, 59)
                                    ELSE <<>>]

SpecLimiter == InitLimiter /\ [][NextLimiter]_vars

\* C36: the timestamp list of a source never holds more than RATE_LIMIT_REQUESTS
\* entries, also when requests of the source run check_rate_limit at once.
C36_ListAtMostLimit ==
    \A ip \in SourceIPs : Len(rate_limit_storage[ip]) <= RATE_LIMIT_REQUESTS

(* SpecLimiterSeq: the requests of SpecLimiter, one at a time. *)
NextLimiterSeq ==
    \/ \E dt \in TimeSteps : Elapse(dt)
    \/ \E ip \in ClientIPs, k \in KeysOf({"lifetime"}), d \in {"hwA"} :
         Received < MaxLimiterRequests /\ check_rate_limit_read(1, k, d, ip)
    \/ check_rate_limit_store(1)
    \/ check_rate_limit_len(1)
    \/ check_rate_limit_append(1)

SpecLimiterSeq == InitLimiter /\ [][NextLimiterSeq]_vars

\* the oldest timestamp of a list that is not empty
Oldest(stamps) ==
    CHOOSE x \in {stamps[i] : i \in DOMAIN stamps} :
        \A i \in DOMAIN stamps : x <= stamps[i]

\* no other request has been in flight since the request of worker w arrived
Alone(w) ==
    /\ \A v \in Workers \ {w} : req[v].pc = "idle"
    /\ req[w].id.seen = Len(responses)

\* worker w's request found timestamps of its source, the oldest of them one window
\* old or more
OldestElapsed(w) ==
    /\ req[w].read # <<>>
    /\ Oldest(req[w].read) + RATE_LIMIT_WINDOW <= req[w].now

\* C37: once RATE_LIMIT_WINDOW has elapsed since the oldest recorded request of a
\* source, the next request of the source, no other being in flight, is allowed.
C37_AllowedOnceOldestElapsed ==
    [][ \A w \in Workers :
          (/\ req[w].pc = "limiter_len"
           /\ req'[w].pc # "limiter_len"
           /\ Alone(w)
           /\ OldestElapsed(w))
          => req'[w].pc = "limiter_append" ]_vars

\* the first half of the claim: a request that is rejected leaves no timestamp
RejectedNotRecorded ==
    [][ (Responds /\ Sent.status = 429)
        => rate_limit_storage' = rate_limit_storage ]_vars

----------------------------------------------------------------------------
(* The launcher (src/start_all.py): ProcessManager, the main thread, the monitor
   thread and the children *)

MAX_RESTARTS == 5
MaxRounds == 7      \* rounds of the monitor loop in a behaviour of SpecLauncher

\* the variables of the license server and of the admin bot
Served == <<licenses, activity_logs, now, req, responses, rate_limit_storage, time,
            admin_bot>>

\* process and process.poll() is None
IsRunning(process) == process # NULL /\ launcher.processes[process[1]].alive

\* process and process.poll() is not None
HasExited(process) == process # NULL /\ ~launcher.processes[process[1]].alive

\* the list of children after subprocess.Popen([sys.executable, file])
Popen(file) == Append(launcher.processes, [file |-> file, alive |-> TRUE])

\* the list of children after the child behind the handle has ended
Ended(process) == [launcher.processes EXCEPT ![process[1]].alive = FALSE]

\* the children started so far that run this script
Started(l, file) == {i \in DOMAIN l.processes : l.processes[i].file = file}

\* a child ends on its own
child_exits(i) ==
    /\ i \in DOMAIN launcher.processes
    /\ launcher.processes[i].alive
    /\ launcher' = [launcher EXCEPT !.processes[i].alive = FALSE]
    /\ UNCHANGED Served

\* main: manager.start_server(), up to its time.sleep(2)
main_start_server ==
    /\ launcher.main = "start_server"
    /\ launcher' = [launcher EXCEPT !.processes = Popen("server"),
                                    !.server_process = Some(Len(launcher.processes) + 1),
                                    !.main = "server_started"]
    /\ UNCHANGED Served

\* main: if not manager.start_server(): sys.exit(1)
main_server_started ==
    /\ launcher.main = "server_started"
    /\ launcher' = [launcher EXCEPT !.main = IF IsRunning(launcher.server_process)
                                             THEN "start_bot" ELSE "exited"]
    /\ UNCHANGED Served

\* main: manager.start_bot(), up to its time.sleep(2)
main_start_bot ==
    /\ launcher.main = "start_bot"
    /\ launcher' = [launcher EXCEPT !.processes = Popen("bot"),
                                    !.bot_process = Some(Len(launcher.processes) + 1),
                                    !.main = "bot_started"]
    /\ UNCHANGED Served

\* main: the bot has started or not, the monitor thread is started and the main
\* loop entered
main_monitor_thread ==
    /\ launcher.main = "bot_started"
    /\ launcher' = [launcher EXCEPT !.main = "loop", !.monitor = "loop"]
    /\ UNCHANGED Served

\* SIGINT or SIGTERM: signal_handler runs in the main thread and calls stop_all,
\* whose first statement is self.running = False
signal_handler ==
    /\ launcher.main \in {"start_server", "server_started", "start_bot", "bot_started", "loop"}
    /\ launcher' = [launcher EXCEPT !.running = FALSE, !.main = "stop_server"]
    /\ UNCHANGED Served

\* stop_all: the server, if it runs, is terminated (killed after 5 seconds) and
\* waited for
stop_all_server ==
    /\ launcher.main = "stop_server"
    /\ launcher' = [launcher EXCEPT !.processes = IF IsRunning(launcher.server_process)
                                                  THEN Ended(launcher.server_process) ELSE @,
                                    !.main = "stop_bot"]
    /\ UNCHANGED Served

\* stop_all: the same for the bot, and stop_all returns
stop_all_bot ==
    /\ launcher.main = "stop_bot"
    /\ launcher' = [launcher EXCEPT !.processes = IF IsRunning(launcher.bot_process)
                                                  THEN Ended(launcher.bot_process) ELSE @,
                                    !.main = "stopped"]
    /\ UNCHANGED Served

\* signal_handler: sys.exit(0); the monitor thread is a daemon thread and ends with
\* the process, the children do not
main_exit ==
    /\ launcher.main = "stopped"
    /\ launcher' = [launcher EXCEPT !.main = "exited",
                                    !.monitor = IF @ = "not started" THEN @ ELSE "ended"]
    /\ UNCHANGED Served

\* the monitor thread runs
MonitorAt(pc) == launcher.main # "exited" /\ launcher.monitor = pc

\* monitor: while self.running
monitor_loop ==
    /\ MonitorAt("loop")
    /\ launcher.rounds < MaxRounds
    /\ launcher' = [launcher EXCEPT !.monitor = IF launcher.running THEN "sleep" ELSE "ended"]
    /\ UNCHANGED Served

\* monitor: time.sleep(HEALTH_CHECK_INTERVAL) is over, check_and_restart is called
monitor_wakes ==
    /\ MonitorAt("sleep")
    /\ launcher' = [launcher EXCEPT !.monitor = "check_server", !.rounds = @ + 1]
    /\ UNCHANGED Served

\* restarts <= MAX_RESTARTS, had the comparison allowed one more
may_restart_one_more(restarts) == restarts <= MAX_RESTARTS + 1

\* if self.server_restarts <= MAX_RESTARTS
may_restart(restarts) == restarts <= MAX_RESTARTS

\* check_and_restart: the server has ended: the counter is incremented and, within
\* the limit, the thread goes to sleep RESTART_DELAY before it restarts it
check_server ==
    /\ MonitorAt("check_server")
    /\ IF HasExited(launcher.server_process)
       THEN launcher' = [launcher EXCEPT !.server_restarts = @ + 1,
                                         !.monitor = IF may_restart(launcher.server_restarts + 1)
                                                     THEN "restart_server" ELSE "check_bot"]
       ELSE launcher' = [launcher EXCEPT !.monitor = "check_bot"]
    /\ UNCHANGED Served

\* check_and_restart: time.sleep(RESTART_DELAY) is over, self.start_server()
restart_server ==
    /\ MonitorAt("restart_server")
    /\ launcher' = [launcher EXCEPT !.processes = Popen("server"),
                                    !.server_process = Some(Len(launcher.processes) + 1),
                                    !.monitor = "check_bot"]
    /\ UNCHANGED Served

\* check_and_restart: the same for the bot
check_bot ==
    /\ MonitorAt("check_bot")
    /\ IF HasExited(launcher.bot_process)
       THEN launcher' = [launcher EXCEPT !.bot_restarts = @ + 1,
                                         !.monitor = IF may_restart(launcher.bot_restarts + 1)
                                                     THEN "restart_bot" ELSE "loop"]
       ELSE launcher' = [launcher EXCEPT !.monitor = "loop"]
    /\ UNCHANGED Served

\* check_and_restart: time.sleep(RESTART_DELAY) is over, self.start_bot()
restart_bot ==
    /\ MonitorAt("restart_bot")
    /\ launcher' = [launcher EXCEPT !.processes = Popen("bot"),
                                    !.bot_process = Some(Len(launcher.processes) + 1),
                                    !.monitor = "loop"]
    /\ UNCHANGED Served

(* SpecLauncher: the launcher from its start to its exit, the children ending at
   any time. *)
NextLauncher ==
    \/ \E i \in DOMAIN launcher.processes : child_exits(i)
    \/ main_start_server
    \/ main_server_started
    \/ main_start_bot
    \/ main_monitor_thread
    \/ signal_handler
    \/ stop_all_server
    \/ stop_all_bot
    \/ main_exit
    \/ monitor_loop
    \/ monitor_wakes
    \/ check_server
    \/ restart_server
    \/ check_bot
    \/ restart_bot

SpecLauncher == Init /\ [][NextLauncher]_vars

\* C38: each child is restarted MAX_RESTARTS times at most: it is started at most
\* once by main and MAX_RESTARTS times by check_and_restart, and once its restart
\* counter exceeds MAX_RESTARTS no step starts it again.
C38_AtMostMaxRestarts ==
    [][ /\ Cardinality(Started(launcher', "server")) <= 1 + MAX_RESTARTS
        /\ Cardinality(Started(launcher', "bot")) <= 1 + MAX_RESTARTS
        /\ launcher.server_restarts > MAX_RESTARTS
           => Started(launcher', "server") = Started(launcher, "server")
        /\ launcher.bot_restarts > MAX_RESTARTS
           => Started(launcher', "bot") = Started(launcher, "bot") ]_vars

\* the server has been restarted MAX_RESTARTS times and has ended again, and
\* check_and_restart has looked at it, counted, and gone on to the bot
C38_Witness ==
    /\ launcher.server_restarts > MAX_RESTARTS
    /\ Cardinality(Started(launcher, "server")) = 1 + MAX_RESTARTS
    /\ HasExited(launcher.server_process)
    /\ launcher.monitor \in {"check_bot", "loop"}
    /\ launcher.running

\* C39: after stop_all has been called no child is started.
C39_NoStartAfterStop ==
    [][ ~launcher.running => Len(launcher'.processes) = Len(launcher.processes) ]_vars

\* the consequence the claim draws: no child runs once stop_all has returned
NoChildLeftRunning ==
    launcher.main \in {"stopped", "exited"}
    => \A i \in DOMAIN launcher.processes : ~launcher.processes[i].alive

----------------------------------------------------------------------------
(* The admin bot (src/telegram_admin_bot.py): admin_only, the menu callbacks and
   the handlers of the messages that answer them *)

MaxUpdates == 4     \* updates handled in a behaviour of SpecBot

\* the operations of the menu that ask for a key
KeyOperations == {"block", "unblock", "reset_hwid", "extend", "delete"}

\* AdminStates
waiting_for_key(op) == <<"waiting_for_key_to", op>>
waiting_for_extend_days == <<"waiting_for_extend_days">>

\* what LicenseAPI._request returns: (True, <JSON>) on status 200, (False, <JSON
\* with an error field>) on another status, (False, <string>) when the request
\* times out or raises
ApiResults == {"ok", "refused", "no answer"}

\* the texts of the messages: a key, a number of days, something else
Texts == {"RBXMT-1", "7", "soon"}

\* int(message.text.strip()) succeeds
IsDays(text) == text = "7"

\* user_id != Config.ADMIN_USER_ID is false
admin_only(u) == u = "admin"

\* the update is counted and remembered
Handled(u, kind) == [admin_bot EXCEPT !.handled = @ + 1,
                                      !.update = Some([from_user |-> u, kind |-> kind])]

\* state.clear()
clear(bot, u) == [bot EXCEPT !.state[u] = NULL, !.extend_key[u] = NULL]

\* api.<op>_key(key): the request is sent
api_request(bot, u, op, key, days) ==
    [bot EXCEPT !.api_calls = Append(@, [endpoint |-> op, key |-> key, days |-> days,
                                         from_user |-> u])]

\* the rest of a handler after its API call: the answer is built (result.get fails
\* on a string and the handler ends there), then state.clear()
after_api_call(bot, u, result) ==
    IF result = "no answer" THEN bot ELSE clear(bot, u)

\* /start, and the callbacks back and cancel: state.clear()
cb_cancel(u) ==
    /\ admin_bot' = IF admin_only(u) THEN clear(Handled(u, "cancel"), u)
                    ELSE Handled(u, "cancel")
    /\ UNCHANGED <<licenses, activity_logs, now, req, responses, rate_limit_storage, time,
                   launcher>>

\* cb_block, cb_unblock, cb_reset_hwid, cb_extend, cb_delete: state.set_state
cb_key_operation(u, op) ==
    /\ admin_bot' = IF admin_only(u)
                    THEN [Handled(u, op) EXCEPT !.state[u] = waiting_for_key(op)]
                    ELSE Handled(u, op)
    /\ UNCHANGED <<licenses, activity_logs, now, req, responses, rate_limit_storage, time,
                   launcher>>

\* process_block_key, process_unblock_key, process_reset_hwid, process_delete_key:
\* a message in the state waiting_for_key_to_<op>
process_key(u, op, text, result) ==
    /\ op # "extend"
    /\ admin_bot.state[u] = waiting_for_key(op)
    /\ admin_bot' = IF admin_only(u)
                    THEN after_api_call(api_request(Handled(u, "key"), u, op, text, NULL),
                                        u, result)
                    ELSE Handled(u, "key")
    /\ UNCHANGED <<licenses, activity_logs, now, req, responses, rate_limit_storage, time,
                   launcher>>

\* process_extend_key: a message in the state waiting_for_key_to_extend
process_extend_key(u, text) ==
    /\ admin_bot.state[u] = waiting_for_key("extend")
    /\ admin_bot' = IF admin_only(u)
                    THEN [Handled(u, "key") EXCEPT !.extend_key[u] = Some(text),
                                                   !.state[u] = waiting_for_extend_days]
                    ELSE Handled(u, "key")
    /\ UNCHANGED <<licenses, activity_logs, now, req, responses, rate_limit_storage, time,
                   launcher>>

\* process_extend_days_text: a message in the state waiting_for_extend_days
process_extend_days_text(u, text, result) ==
    /\ admin_bot.state[u] = waiting_for_extend_days
    /\ admin_bot' = IF ~admin_only(u) \/ ~IsDays(text)
                    THEN Handled(u, "days")
                    ELSE after_api_call(api_request(Handled(u, "days"), u, "extend",
                                                    admin_bot.extend_key[u][1], text),
                                        u, result)
    /\ UNCHANGED <<licenses, activity_logs, now, req, responses, rate_limit_storage, time,
                   launcher>>

\* process_extend_days_button: a callback extend_<days> in the state
\* waiting_for_extend_days
process_extend_days_button(u, days, result) ==
    /\ admin_bot.state[u] = waiting_for_extend_days
    /\ admin_bot' = IF admin_only(u)
                    THEN after_api_call(api_request(Handled(u, "days"), u, "extend",
                                                    admin_bot.extend_key[u][1], days),
                                        u, result)
                    ELSE Handled(u, "days")
    /\ UNCHANGED <<licenses, activity_logs, now, req, responses, rate_limit_storage, time,
                   launcher>>

\* a message in no state: no handler is registered for it
unhandled_message(u) ==
    /\ admin_bot.state[u] = NULL
    /\ admin_bot' = Handled(u, "message")
    /\ UNCHANGED <<licenses, activity_logs, now, req, responses, rate_limit_storage, time,
                   launcher>>

(* SpecBot: the updates of two users, handled one after the other. *)
NextBot ==
    \/ \E u \in Users : admin_bot.handled < MaxUpdates /\ cb_cancel(u)
    \/ \E u \in Users, op \in KeyOperations :
         admin_bot.handled < MaxUpdates /\ cb_key_operation(u, op)
    \/ \E u \in Users, op \in KeyOperations, text \in Texts, result \in ApiResults :
         admin_bot.handled < MaxUpdates /\ process_key(u, op, text, result)
    \/ \E u \in Users, text \in Texts :
         admin_bot.handled < MaxUpdates /\ process_extend_key(u, text)
    \/ \E u \in Users, text \in Texts, result \in ApiResults :
         admin_bot.handled < MaxUpdates /\ process_extend_days_text(u, text, result)
    \/ \E u \in Users, result \in ApiResults :
         admin_bot.handled < MaxUpdates /\ process_extend_days_button(u, "7", result)
    \/ \E u \in Users : admin_bot.handled < MaxUpdates /\ unhandled_message(u)

SpecBot == Init /\ [][NextBot]_vars

\* this step handles an update
Handles == admin_bot'.handled = admin_bot.handled + 1

\* the user the update of this step comes from
Sender == admin_bot'.update[1].from_user

\* this step issues an API request
Requests == Len(admin_bot'.api_calls) > Len(admin_bot.api_calls)

\* the first half of C40: an update from a user who is not the administrator issues
\* no API request and changes no conversation state
StrangerIgnored ==
    [][ (Handles /\ Sender # "admin")
        => /\ ~Requests
           /\ admin_bot'.state = admin_bot.state
           /\ admin_bot'.extend_key = admin_bot.extend_key ]_vars

\* C40: an update from a user who is not the administrator issues no API request
\* and changes no conversation state, and a handler that issues the API request of
\* block, unblock, reset, extend or delete leaves the conversation without a state,
\* whether the request succeeded or failed.
C40_AdminOnlyAndCleared ==
    [][ Handles
        => /\ Sender # "admin"
              => /\ ~Requests
                 /\ admin_bot'.state = admin_bot.state
                 /\ admin_bot'.extend_key = admin_bot.extend_key
           /\ Requests => admin_bot'.state[Sender] = NULL ]_vars

====
